---- MODULE Spec2Model ----
(***************************************************************************)
(* Model of the codebase Q&A backend: the chunker, the AI provider         *)
(* dispatch, the in-memory vector store and the question answering         *)
(* service, as one state machine whose steps are the event-loop tasks of   *)
(* the Node.js process (a handler runs from one network await to the       *)
(* next; an await on an already computed value does not yield to other     *)
(* requests).                                                              *)
(*                                                                         *)
(* Text is modelled structurally: a text is a sequence of lines (what      *)
(* split('\n') yields), a line is a sequence of words separated by blanks, *)
(* and a word is a non-empty sequence of character codes.                  *)
(***************************************************************************)
EXTENDS Integers, Sequences, FiniteSets, TLC

VARIABLES
    envProvider,    \* process.env.AI_PROVIDER, fixed for the process lifetime
    vectorStores,   \* the Map projectId -> {vectors, files, stats}
    nextId,         \* number of project ids handed out by the upload route
    indexCalls,     \* per project id: the indexProject call made for it
    req,            \* request slots: search / answer / explainFile / reads
    lastWrite,      \* per project id: the last write applied to vectorStores
                    \* ("swept": the cleanup ran while the id's index call was suspended)
    probe           \* a pure function of the services applied to one input

vars == <<envProvider, vectorStores, nextId, indexCalls, req, lastWrite, probe>>

----------------------------------------------------------------------------
(* Bounds of the model *)

MaxProjects == 2
MaxUploads == 1
MaxReqs == 1

ProjectIds == 1..MaxProjects
Slots == 1..MaxReqs

----------------------------------------------------------------------------
(* Generic helpers *)

Min(a, b) == IF a < b THEN a ELSE b

Range(s) == {s[k] : k \in 1..Len(s)}

\* Array.prototype.slice(a, b): 0-based, end exclusive, clipped to the array
Slice(s, a, b) == SubSeq(s, a + 1, Min(b, Len(s)))

RECURSIVE Digits(_)
\* decimal rendering of a natural number inside a template literal
Digits(n) == IF n < 10 THEN <<48 + n>> ELSE Digits(n \div 10) \o <<48 + (n % 10)>>

\* lines.join('\n').trim().length > 0 : some line holds a word
HasText(lines) == \E k \in 1..Len(lines) : lines[k] # <<>>

----------------------------------------------------------------------------
(* Words used by the model's files and queries, as character codes *)

\* words, languages, folders, paths and names of the parsed files, as character codes
FileText ==
    [add |-> <<97, 100, 100>>,   \* add
     sum |-> <<115, 117, 109>>,   \* sum
     ab |-> <<97, 98>>,   \* ab
     AddCall |-> <<65, 100, 100, 40, 120, 41>>,   \* Add(x)
     export |-> <<101, 120, 112, 111, 114, 116>>,   \* export
     xfjfxtf |-> <<120, 102, 106, 102, 120, 116, 102>>,   \* xfjfxtf
     js |-> <<106, 97, 118, 97, 115, 99, 114, 105, 112, 116>>,   \* javascript
     py |-> <<112, 121, 116, 104, 111, 110>>,   \* python
     class |-> <<99, 108, 97, 115, 115>>,   \* class
     src |-> <<115, 114, 99>>,   \* src
     lib |-> <<108, 105, 98>>,   \* lib
     appPath |-> <<115, 114, 99, 47, 97, 112, 112, 46, 106, 115>>,   \* src/app.js
     utilPath |-> <<108, 105, 98, 47, 117, 46, 112, 121>>,   \* lib/u.py
     blankPath |-> <<115, 114, 99, 47, 98, 46, 106, 115>>,   \* src/b.js
     appName |-> <<97, 112, 112, 46, 106, 115>>,   \* app.js
     utilName |-> <<117, 46, 112, 121>>,   \* u.py
     blankName |-> <<98, 46, 106, 115>>,   \* b.js
     component |-> <<99, 111, 109, 112, 111, 110, 101, 110, 116>>,   \* component
     interface |-> <<105, 110, 116, 101, 114, 102, 97, 99, 101>>,   \* interface
     ts |-> <<116, 121, 112, 101, 115, 99, 114, 105, 112, 116>>]   \* typescript

\* fixed words of createFileSummary's template
SummaryText ==
    [File |-> <<70, 105, 108, 101, 58>>,   \* File:
     Language |-> <<76, 97, 110, 103, 117, 97, 103, 101, 58>>,   \* Language:
     Code |-> <<67, 111, 100, 101>>,   \* Code
     structs |-> <<115, 116, 114, 117, 99, 116, 117, 114, 101, 115, 58>>,   \* structures:
     Content |-> <<67, 111, 110, 116, 101, 110, 116>>,   \* Content
     preview |-> <<112, 114, 101, 118, 105, 101, 119, 58>>,   \* preview:
     dash |-> <<45>>,   \* -
     lineOpen |-> <<40, 108, 105, 110, 101>>]   \* (line

P_missing  == <<109, 105, 115, 115, 46, 106, 115>>              \* miss.js

----------------------------------------------------------------------------
(* Chunker *)

chunkSize == 50
overlap == 10
previewLines == 20

\* createFileSummary(file): the summary text, line by line
createFileSummary(file) ==
    LET head == << <<SummaryText.File, file.path>>, <<SummaryText.Language, file.language>> >>
        structs ==
            IF Len(file.structures) > 0
            THEN << <<>>, <<SummaryText.Code, SummaryText.structs>> >> \o
                 [k \in 1..Len(file.structures) |->
                    <<SummaryText.dash,
                      file.structures[k].type \o <<58>>,
                      file.structures[k].name,
                      SummaryText.lineOpen,
                      Digits(file.structures[k].line) \o <<41>> >>]
            ELSE <<>>
        firstLines == Slice(file.content, 0, previewLines)
    IN  head \o structs \o << <<>>, <<SummaryText.Content, SummaryText.preview>> >> \o firstLines

\* the window the loop builds at offset i (0-based line index)
Window(file, i) ==
    [content   |-> Slice(file.content, i, i + chunkSize),
     startLine |-> i + 1,
     endLine   |-> Min(i + chunkSize, Len(file.content)),
     path      |-> file.path,
     fileName  |-> file.fileName,
     language  |-> file.language,
     folder    |-> file.folder,
     isSummary |-> FALSE]

\* is the window at offset i pushed (its joined, trimmed text is non-empty)
WindowKept(chunk) == HasText(chunk.content)

\* a variant whose windows do not overlap: i = 0, 50, 100, ...
WindowsWithoutOverlap(file) ==
    LET L == Len(file.content)
        n == (L + chunkSize - 1) \div chunkSize
        all == [k \in 1..n |-> Window(file, (k - 1) * chunkSize)]
    IN  SelectSeq(all, WindowKept)

\* the for loop: i = 0, 40, 80, ... while i < lines.length
Windows(file) ==
    LET L == Len(file.content)
        stride == chunkSize - overlap
        n == (L + stride - 1) \div stride
        all == [k \in 1..n |-> Window(file, (k - 1) * stride)]
    IN  SelectSeq(all, WindowKept)

\* the summary chunk that is unshifted in front of the windows
SummaryChunk(file) ==
    [content   |-> createFileSummary(file),
     startLine |-> 1,
     endLine   |-> Len(file.content),
     path      |-> file.path,
     fileName  |-> file.fileName,
     language  |-> file.language,
     folder    |-> file.folder,
     isSummary |-> TRUE]

\* a variant that pushes the summary chunk behind the windows
chunkContentSummaryLast(file) == Windows(file) \o <<SummaryChunk(file)>>

chunkContent(file) == <<SummaryChunk(file)>> \o Windows(file)

----------------------------------------------------------------------------
(* Parsed files the upload route can hand to indexProject *)

FileApp ==
    [path |-> FileText.appPath, fileName |-> FileText.appName, language |-> FileText.js, folder |-> FileText.src,
     content |-> << <<FileText.add, FileText.sum>>, <<FileText.ab, FileText.AddCall>> >>,
     structures |-> << [type |-> FileText.class, name |-> FileText.add, line |-> 1] >>]

FileUtil ==
    [path |-> FileText.utilPath, fileName |-> FileText.utilName, language |-> FileText.py, folder |-> FileText.lib,
     content |-> << <<FileText.sum>> >>,
     structures |-> <<>>]

\* a file that holds blank lines only
FileBlank ==
    [path |-> FileText.blankPath, fileName |-> FileText.blankName, language |-> FileText.js, folder |-> FileText.src,
     content |-> << <<>>, <<>> >>,
     structures |-> <<>>]

FileLists == { <<>>, <<FileApp>>, <<FileUtil, FileBlank>> }

----------------------------------------------------------------------------
(* Numbers: JavaScript doubles are modelled in fixed point, Scale units = 1.0 *)

Scale == 1000

RECURSIVE SqrtFrom(_, _)
\* Newton iteration downwards from a guess r >= floor(sqrt(n))
SqrtFrom(n, r) ==
    LET q == (r + (n \div r)) \div 2
    IN  IF q >= r THEN r ELSE SqrtFrom(n, q)

\* Math.sqrt on a fixed-point square: floor(sqrt(n))
Sqrt(n) == IF n <= 0 THEN 0 ELSE IF n < 4 THEN 1 ELSE SqrtFrom(n, n \div 2)

\* a / b for doubles, both in the same unit, result in Scale units (truncating)
FDiv(a, b) == IF a >= 0 THEN (a * Scale) \div b ELSE -(((-a) * Scale) \div b)

RECURSIVE SumOver(_, _)
\* sum of f[k] over the finite set S
SumOver(f, S) ==
    IF S = {} THEN 0
    ELSE LET k == CHOOSE e \in S : TRUE IN f[k] + SumOver(f, S \ {k})

----------------------------------------------------------------------------
(* Vectors: an array of numbers, kept sparsely (absent index = 0) *)

At(v, i) == IF i \in DOMAIN v.at THEN v.at[i] ELSE 0

ZeroVector(d) == [dim |-> d, at |-> <<>>]

----------------------------------------------------------------------------
(* Offline embedding: createSimpleEmbedding and simpleHash *)

embeddingDim == 384
minWordLen == 2
Half == 65536

\* 32-bit wrap of hash * 31 + char, computed on 16-bit halves
HashStep(hash, char) ==
    LET lo == hash % Half
        hi == ((hash - lo) \div Half) % Half
        l  == (lo * 31) + char
        nlo == l % Half
        nhi == ((hi * 31) + (l \div Half)) % Half
    IN  IF nhi >= (Half \div 2) THEN ((nhi - Half) * Half) + nlo ELSE (nhi * Half) + nlo

RECURSIVE HashFrom(_, _, _)
HashFrom(str, i, hash) ==
    IF i > Len(str) THEN hash ELSE HashFrom(str, i + 1, HashStep(hash, str[i]))

\* simpleHash(str): hash = ((hash << 5) - hash) + char, kept in 32 bits
simpleHash(str) == HashFrom(str, 1, 0)

\* a variant without Math.abs: the remainder keeps the sign of the hash
PositionOfSignedHash(hash) ==
    IF hash >= 0 THEN hash % embeddingDim
    ELSE 0 - ((((-(hash + 1)) % embeddingDim) + 1) % embeddingDim)

\* Math.abs(hash) % 384 without leaving 32 bits
Position(hash) ==
    IF hash >= 0 THEN hash % embeddingDim
    ELSE (((-(hash + 1)) % embeddingDim) + 1) % embeddingDim

\* String.prototype.toLowerCase on one character code
ToLowerChar(c) == IF c >= 65 /\ c <= 90 THEN c + 32 ELSE c

\* \w : letters, digits, underscore
IsWordChar(c) ==
    \/ c >= 48 /\ c <= 57
    \/ c >= 65 /\ c <= 90
    \/ c >= 97 /\ c <= 122
    \/ c = 95

RECURSIVE SplitWord(_, _, _)
\* lower-case a word, turn its non-word characters into blanks, split on blanks
SplitWord(w, i, cur) ==
    IF i > Len(w) THEN (IF cur = <<>> THEN <<>> ELSE <<cur>>)
    ELSE IF IsWordChar(w[i]) THEN SplitWord(w, i + 1, Append(cur, ToLowerChar(w[i])))
    ELSE (IF cur = <<>> THEN <<>> ELSE <<cur>>) \o SplitWord(w, i + 1, <<>>)

RECURSIVE LineTokens(_, _)
LineTokens(line, k) ==
    IF k > Len(line) THEN <<>> ELSE SplitWord(line[k], 1, <<>>) \o LineTokens(line, k + 1)

RECURSIVE TextTokens(_, _)
TextTokens(text, k) ==
    IF k > Len(text) THEN <<>> ELSE LineTokens(text[k], 1) \o TextTokens(text, k + 1)

KeptToken(w) == Len(w) > minWordLen

\* the words array: tokens longer than 2 characters, in text order
Words(text) == SelectSeq(TextTokens(text, 1), KeptToken)

\* 1 / (1 + idx * 0.1) for the 0-based word index idx
Weight(idx) == (10 * Scale) \div (10 + idx)

\* the accumulated, not yet normalised array
Accumulate(words) ==
    LET pos == [k \in 1..Len(words) |-> Position(simpleHash(words[k]))]
        hit == {pos[k] : k \in 1..Len(words)}
        w == [k \in 1..Len(words) |-> Weight(k - 1)]
    IN  [p \in hit |-> SumOver(w, {k \in 1..Len(words) : pos[k] = p})]

createSimpleEmbedding(text) ==
    LET acc == Accumulate(Words(text))
        sq == [p \in DOMAIN acc |-> acc[p] * acc[p]]
        magnitude == Sqrt(SumOver(sq, DOMAIN acc))
    IN  [dim |-> embeddingDim,
         at  |-> IF magnitude > 0
                 THEN [p \in DOMAIN acc |-> FDiv(acc[p], magnitude)]
                 ELSE acc]

----------------------------------------------------------------------------
(* Results of calls: a returned value or a thrown error with its message.   *)
(* A message is a sequence of text fragments (template literals append).    *)

Return(v) == [threw |-> FALSE, value |-> v, message |-> <<>>]
Throw(m) == [threw |-> TRUE, value |-> <<>>, message |-> m]

----------------------------------------------------------------------------
(* AI provider selection *)

Unset == "<unset>"
EnvValues == {Unset, "OpenAI", "ollama", "groq", "demo", "mistral"}

\* String.prototype.toLowerCase on the values AI_PROVIDER takes here
toLowerCase(s) == IF s = "OpenAI" THEN "openai" ELSE s

AI_PROVIDERS == [OPENAI |-> "openai", OLLAMA |-> "ollama", GROQ |-> "groq", DEMO |-> "demo"]

\* process.env.AI_PROVIDER?.toLowerCase() || AI_PROVIDERS.DEMO
getProvider(env) ==
    IF env = Unset \/ toLowerCase(env) = "" THEN AI_PROVIDERS.DEMO ELSE toLowerCase(env)

Undefined == "undefined"

providerConfigs ==
    [openai |-> [name |-> "OpenAI", chatModel |-> "gpt-4o-mini",
                 requiresKey |-> TRUE, keyEnvVar |-> "OPENAI_API_KEY"],
     ollama |-> [name |-> "Ollama (Local)", chatModel |-> "llama3.2",
                 requiresKey |-> FALSE, keyEnvVar |-> Undefined],
     groq   |-> [name |-> "Groq (Free Tier)", chatModel |-> "llama-3.1-8b-instant",
                 requiresKey |-> TRUE, keyEnvVar |-> "GROQ_API_KEY"],
     demo   |-> [name |-> "Demo Mode", chatModel |-> Undefined,
                 requiresKey |-> FALSE, keyEnvVar |-> Undefined]]

\* providerConfigs[provider] is an object (not undefined)
HasConfig(provider) == provider \in DOMAIN providerConfigs

\* getProviderConfig(): { provider, ...providerConfigs[provider] }
getProviderConfig(env) ==
    LET provider == getProvider(env)
    IN  IF HasConfig(provider)
        THEN [provider |-> provider, name |-> providerConfigs[provider].name]
        ELSE [provider |-> provider, name |-> Undefined]

\* getProviderStatus(); hasKey: process.env[config.keyEnvVar] is set.
\* Reading config.name of an undefined config throws a TypeError.
getProviderStatus(env, hasKey) ==
    LET provider == getProvider(env)
        config == providerConfigs[provider]
    IN  IF ~HasConfig(provider)
        THEN Throw(<<"TypeError: Cannot read properties of undefined (reading 'name')">>)
        ELSE Return(
            [provider |-> provider,
             name |-> config.name,
             isConfigured |-> IF config.requiresKey THEN hasKey ELSE TRUE,
             message |->
                IF config.requiresKey
                THEN (IF hasKey
                      THEN <<"Using ", config.name, " with ", config.chatModel>>
                      ELSE <<"Missing ", config.keyEnvVar, " environment variable">>)
                ELSE IF provider = AI_PROVIDERS.OLLAMA
                THEN <<"Using Ollama at ", "baseUrl", ". Make sure Ollama is running.">>
                ELSE IF provider = AI_PROVIDERS.DEMO
                THEN <<"Demo mode - semantic search works, AI responses are simulated">>
                ELSE <<>>])

\* the module's top-level statement `const status = getProviderStatus()`:
\* when it throws, the import of the service fails and no request is served
ModuleLoaded(env) == \A hasKey \in BOOLEAN : ~getProviderStatus(env, hasKey).threw

----------------------------------------------------------------------------
(* Network outcomes of a provider call, chosen by the environment *)

NetErrors == {"connect ECONNREFUSED", "Request timed out"}

\* vectors a remote embedding endpoint answers with
RemoteVectors == { [dim |-> 2, at |-> (0 :> 600 @@ 1 :> 800)] }

RemoteTexts == { <<"remote completion">> }

NoNet == [ok |-> TRUE, vec |-> ZeroVector(0), text |-> <<>>, message |-> ""]

EmbeddingNet ==
    {[ok |-> TRUE, vec |-> v, text |-> <<>>, message |-> ""] : v \in RemoteVectors}
    \cup {[ok |-> FALSE, vec |-> ZeroVector(0), text |-> <<>>, message |-> m] : m \in NetErrors}

CompletionNet ==
    {[ok |-> TRUE, vec |-> ZeroVector(0), text |-> t, message |-> ""] : t \in RemoteTexts}
    \cup {[ok |-> FALSE, vec |-> ZeroVector(0), text |-> <<>>, message |-> m] : m \in NetErrors}

----------------------------------------------------------------------------
(* createEmbedding *)

\* try { return response.data[0].embedding } catch (error) { throw error }
createOpenAIEmbedding(text, net) ==
    IF net.ok THEN Return(net.vec) ELSE Throw(<<net.message>>)

\* a variant whose catch block rethrows
createOllamaEmbeddingRethrows(text, net) ==
    IF net.ok THEN Return(net.vec) ELSE Throw(<<net.message>>)

\* try { ... return data.embedding } catch { return createSimpleEmbedding(text) }
createOllamaEmbedding(text, net) ==
    IF net.ok THEN Return(net.vec) ELSE Return(createSimpleEmbedding(text))

\* does createEmbedding await a network call for this provider
EmbeddingAwaitsNetwork(provider) ==
    provider \in {AI_PROVIDERS.OPENAI, AI_PROVIDERS.OLLAMA}

createEmbedding(provider, text, net) ==
    CASE provider = AI_PROVIDERS.OPENAI -> createOpenAIEmbedding(text, net)
      [] provider = AI_PROVIDERS.OLLAMA -> createOllamaEmbedding(text, net)
      [] provider \in {AI_PROVIDERS.GROQ, AI_PROVIDERS.DEMO} ->
            Return(createSimpleEmbedding(text))
      [] OTHER -> Return(createSimpleEmbedding(text))

----------------------------------------------------------------------------
(* Fixed text of the prompts *)

\* Based on the following code context from the codebase, please answer this question:
L_answerIntro ==
    << <<66, 97, 115, 101, 100>>,
       <<111, 110>>,
       <<116, 104, 101>>,
       <<102, 111, 108, 108, 111, 119, 105, 110, 103>>,
       <<99, 111, 100, 101>>,
       <<99, 111, 110, 116, 101, 120, 116>>,
       <<102, 114, 111, 109>>,
       <<116, 104, 101>>,
       <<99, 111, 100, 101, 98, 97, 115, 101, 44>>,
       <<112, 108, 101, 97, 115, 101>>,
       <<97, 110, 115, 119, 101, 114>>,
       <<116, 104, 105, 115>>,
       <<113, 117, 101, 115, 116, 105, 111, 110, 58>> >>

\* Code Context:
L_codeContext ==
    << <<67, 111, 100, 101>>,
       <<67, 111, 110, 116, 101, 120, 116, 58>> >>

\* Please provide a clear, detailed answer with specific file and line references where applicable.
L_answerOutro ==
    << <<80, 108, 101, 97, 115, 101>>,
       <<112, 114, 111, 118, 105, 100, 101>>,
       <<97>>,
       <<99, 108, 101, 97, 114, 44>>,
       <<100, 101, 116, 97, 105, 108, 101, 100>>,
       <<97, 110, 115, 119, 101, 114>>,
       <<119, 105, 116, 104>>,
       <<115, 112, 101, 99, 105, 102, 105, 99>>,
       <<102, 105, 108, 101>>,
       <<97, 110, 100>>,
       <<108, 105, 110, 101>>,
       <<114, 101, 102, 101, 114, 101, 110, 99, 101, 115>>,
       <<119, 104, 101, 114, 101>>,
       <<97, 112, 112, 108, 105, 99, 97, 98, 108, 101, 46>> >>

\* Please analyze and explain this
L_explainIntro ==
    << <<80, 108, 101, 97, 115, 101>>,
       <<97, 110, 97, 108, 121, 122, 101>>,
       <<97, 110, 100>>,
       <<101, 120, 112, 108, 97, 105, 110>>,
       <<116, 104, 105, 115>> >>

\* Provide:
L_provide ==
    << <<80, 114, 111, 118, 105, 100, 101, 58>> >>

\* 1. A brief overview of what this file does
L_provide1 ==
    << <<49, 46>>,
       <<65>>,
       <<98, 114, 105, 101, 102>>,
       <<111, 118, 101, 114, 118, 105, 101, 119>>,
       <<111, 102>>,
       <<119, 104, 97, 116>>,
       <<116, 104, 105, 115>>,
       <<102, 105, 108, 101>>,
       <<100, 111, 101, 115>> >>

\* 2. Key functions/classes and their purposes
L_provide2 ==
    << <<50, 46>>,
       <<75, 101, 121>>,
       <<102, 117, 110, 99, 116, 105, 111, 110, 115, 47, 99, 108, 97, 115, 115, 101, 115>>,
       <<97, 110, 100>>,
       <<116, 104, 101, 105, 114>>,
       <<112, 117, 114, 112, 111, 115, 101, 115>> >>

\* 3. How this file likely fits into the larger application
L_provide3 ==
    << <<51, 46>>,
       <<72, 111, 119>>,
       <<116, 104, 105, 115>>,
       <<102, 105, 108, 101>>,
       <<108, 105, 107, 101, 108, 121>>,
       <<102, 105, 116, 115>>,
       <<105, 110, 116, 111>>,
       <<116, 104, 101>>,
       <<108, 97, 114, 103, 101, 114>>,
       <<97, 112, 112, 108, 105, 99, 97, 116, 105, 111, 110>> >>

\* 4. Any notable patterns or best practices used
L_provide4 ==
    << <<52, 46>>,
       <<65, 110, 121>>,
       <<110, 111, 116, 97, 98, 108, 101>>,
       <<112, 97, 116, 116, 101, 114, 110, 115>>,
       <<111, 114>>,
       <<98, 101, 115, 116>>,
       <<112, 114, 97, 99, 116, 105, 99, 101, 115>>,
       <<117, 115, 101, 100>> >>

\* your question
L_yourQuestion ==
    << <<121, 111, 117, 114>>,
       <<113, 117, 101, 115, 116, 105, 111, 110>> >>

\* fixed words of the prompt templates and of the patterns read back from them
PromptText ==
    [QuestionLabel |-> <<81, 117, 101, 115, 116, 105, 111, 110, 58>>,   \* Question:
     questionPat |-> <<113, 117, 101, 115, 116, 105, 111, 110, 58>>,   \* question:
     FilePat |-> <<70, 105, 108, 101, 58>>,   \* File:
     fileWord |-> <<102, 105, 108, 101, 58>>,   \* file:
     fence |-> <<96, 96, 96>>,   \* ```
     blockOpen |-> <<45, 45, 45>>,   \* ---
     linesOpen |-> <<40, 108, 105, 110, 101, 115>>]   \* (lines

----------------------------------------------------------------------------
(* Prompts of the question answering service *)

\* buildContext(chunks): per chunk "\n--- File: <path> (lines a-b) ---\n<content>\n"
ContextBlock(chunk) ==
    << <<>>,
       <<PromptText.blockOpen, PromptText.FilePat, chunk.path, PromptText.linesOpen,
         Digits(chunk.startLine) \o <<45>> \o Digits(chunk.endLine) \o <<41>>,
         PromptText.blockOpen>> >>
    \o chunk.content

RECURSIVE buildContextFrom(_, _)
buildContextFrom(chunks, k) ==
    IF k > Len(chunks) THEN << <<>> >>
    ELSE ContextBlock(chunks[k].chunk) \o buildContextFrom(chunks, k + 1)

buildContext(chunks) == buildContextFrom(chunks, 1)

\* the user prompt of generateAnswer
AnswerPrompt(question, context) ==
    <<L_answerIntro, <<>>, <<PromptText.QuestionLabel>> \o question[1]>>
    \o Slice(question, 1, Len(question))
    \o << <<>>, L_codeContext >> \o context \o << <<>>, L_answerOutro >>

\* the user prompt of explainFile
ExplainPrompt(file) ==
    << L_explainIntro \o <<file.language, PromptText.fileWord>>, <<>>,
       <<PromptText.FilePat, file.path>>, <<>>,
       <<PromptText.fence \o file.language>> >>
    \o file.content
    \o << <<PromptText.fence>>, <<>>, L_provide, L_provide1, L_provide2, L_provide3, L_provide4 >>

----------------------------------------------------------------------------
(* generateDemoCompletion: what its two regular expressions capture *)

\* does pat occur in w at position i (ci: compare case-insensitively)
StartsAt(w, pat, i, ci) ==
    /\ i + Len(pat) - 1 <= Len(w)
    /\ \A j \in 1..Len(pat) :
          (IF ci THEN ToLowerChar(w[i + j - 1]) ELSE w[i + j - 1]) = pat[j]

\* first position of pat in w, 0 when absent
Occurs(w, pat, ci) ==
    LET hits == {i \in 1..Len(w) : StartsAt(w, pat, i, ci)}
    IN  IF hits = {} THEN 0 ELSE CHOOSE i \in hits : \A j \in hits : i <= j

\* first word of the line holding pat, 0 when none
WordWith(line, pat, ci) ==
    LET hits == {k \in 1..Len(line) : Occurs(line[k], pat, ci) > 0}
    IN  IF hits = {} THEN 0 ELSE CHOOSE k \in hits : \A j \in hits : k <= j

\* what follows the first occurrence of pat on the line, up to the line's end
AfterPattern(line, pat, ci) ==
    LET k == WordWith(line, pat, ci)
        w == line[k]
        rest == SubSeq(w, Occurs(w, pat, ci) + Len(pat), Len(w))
    IN  (IF rest = <<>> THEN <<>> ELSE <<rest>>) \o SubSeq(line, k + 1, Len(line))

\* first line after k that holds a word, 0 when none (\s* runs over line ends)
NextTextLine(text, k) ==
    LET hits == {j \in (k + 1)..Len(text) : text[j] # <<>>}
    IN  IF hits = {} THEN 0 ELSE CHOOSE j \in hits : \A i \in hits : j <= i

RECURSIVE Captures(_, _, _, _)
\* all captures of /pat\s*([^\n]+)/g in the text from line k on
Captures(text, pat, ci, k) ==
    IF k > Len(text) THEN <<>>
    ELSE IF WordWith(text[k], pat, ci) = 0 THEN Captures(text, pat, ci, k + 1)
    ELSE LET cap == AfterPattern(text[k], pat, ci)
             nxt == NextTextLine(text, k)
         IN  IF cap # <<>> THEN <<cap>> \o Captures(text, pat, ci, k + 1)
             ELSE IF nxt = 0 THEN <<>>
             ELSE <<text[nxt]>> \o Captures(text, pat, ci, nxt + 1)

maxDemoFiles == 3

generateDemoCompletion(userPrompt) ==
    LET questionMatch == Captures(userPrompt, PromptText.questionPat, TRUE, 1)
        fileMatches == Captures(userPrompt, PromptText.FilePat, FALSE, 1)
    IN  [demo |-> TRUE,
         question |-> IF questionMatch # <<>> THEN questionMatch[1] ELSE L_yourQuestion,
         files |-> Slice(fileMatches, 0, maxDemoFiles),
         text |-> <<"## Demo Mode Response">>]

----------------------------------------------------------------------------
(* generateCompletion *)

\* a text that is not the demo template
PlainText(t) == [demo |-> FALSE, question |-> <<>>, files |-> <<>>, text |-> t]

RemoteCompletion(t) == PlainText(t)

\* try { return response.choices[0].message.content } catch (error) { throw error }
generateOpenAICompletion(userPrompt, net) ==
    IF net.ok THEN Return(RemoteCompletion(net.text)) ELSE Throw(<<net.message>>)

\* a variant whose catch block answers with the offline template
generateOllamaCompletionFallsBack(userPrompt, net) ==
    IF net.ok THEN Return(RemoteCompletion(net.text))
    ELSE Return(generateDemoCompletion(userPrompt))

\* catch (error) { throw new Error('Ollama is not running. ...') }
generateOllamaCompletion(userPrompt, net) ==
    IF net.ok THEN Return(RemoteCompletion(net.text))
    ELSE Throw(<<"Ollama is not running. Start it with: ollama serve">>)

generateGroqCompletion(userPrompt, net) ==
    IF net.ok THEN Return(RemoteCompletion(net.text)) ELSE Throw(<<net.message>>)

\* does generateCompletion await a network call for this provider
CompletionAwaitsNetwork(provider) ==
    provider \in {AI_PROVIDERS.OPENAI, AI_PROVIDERS.OLLAMA, AI_PROVIDERS.GROQ}

generateCompletion(provider, userPrompt, net) ==
    CASE provider = AI_PROVIDERS.OPENAI -> generateOpenAICompletion(userPrompt, net)
      [] provider = AI_PROVIDERS.OLLAMA -> generateOllamaCompletion(userPrompt, net)
      [] provider = AI_PROVIDERS.GROQ -> generateGroqCompletion(userPrompt, net)
      [] provider = AI_PROVIDERS.DEMO -> Return(generateDemoCompletion(userPrompt))
      [] OTHER -> Return(generateDemoCompletion(userPrompt))

----------------------------------------------------------------------------
(* Vector store: pure parts of indexProject and searchCode *)

RECURSIVE AllChunksFrom(_, _)
\* the chunks in the order the nested loops of indexProject visit them
AllChunksFrom(files, k) ==
    IF k > Len(files) THEN <<>>
    ELSE chunkContent(files[k]) \o AllChunksFrom(files, k + 1)

AllChunks(files) == AllChunksFrom(files, 1)

RECURSIVE DedupeFrom(_, _, _)
\* [...new Set(seq)]: first occurrences, in order
DedupeFrom(seq, k, acc) ==
    IF k > Len(seq) THEN acc
    ELSE DedupeFrom(seq, k + 1, IF seq[k] \in Range(acc) THEN acc ELSE Append(acc, seq[k]))

Dedupe(seq) == DedupeFrom(seq, 1, <<>>)

\* { ...chunk, embedding }
Embedded(chunk, embedding) == [chunk |-> chunk, embedding |-> embedding]

\* a variant whose file count depends on the time of indexing
StoreEntryCountsTime(files, vectors, indexedAt) ==
    [vectors |-> vectors,
     files |-> files,
     indexedAt |-> indexedAt,
     stats |-> [totalFiles |-> Len(files) + indexedAt,
                totalChunks |-> Len(vectors),
                languages |-> Dedupe([k \in 1..Len(files) |-> files[k].language])]]

\* the object indexProject stores under the project id
StoreEntry(files, vectors, indexedAt) ==
    [vectors |-> vectors,
     files |-> files,
     indexedAt |-> indexedAt,
     stats |-> [totalFiles |-> Len(files),
                totalChunks |-> Len(vectors),
                languages |-> Dedupe([k \in 1..Len(files) |-> files[k].language])]]

\* an array is a vector unless it is undefined (dim < 0 stands for undefined)
IsVector(v) == v.dim >= 0

\* a variant that takes two vectors it cannot compare for equal
cosineSimilarityOfDegenerateIsOne(vecA, vecB) ==
    IF ~IsVector(vecA) \/ ~IsVector(vecB) \/ vecA.dim # vecB.dim THEN Scale
    ELSE LET both == DOMAIN vecA.at \cap DOMAIN vecB.at
             dotProduct == SumOver([i \in both |-> vecA.at[i] * vecB.at[i]], both)
             normA == SumOver([i \in DOMAIN vecA.at |-> vecA.at[i] * vecA.at[i]], DOMAIN vecA.at)
             normB == SumOver([i \in DOMAIN vecB.at |-> vecB.at[i] * vecB.at[i]], DOMAIN vecB.at)
             denominator == Sqrt(normA) * Sqrt(normB)
         IN  IF denominator > 0 THEN FDiv(dotProduct, denominator) ELSE Scale

cosineSimilarity(vecA, vecB) ==
    IF ~IsVector(vecA) \/ ~IsVector(vecB) \/ vecA.dim # vecB.dim THEN 0
    ELSE LET both == DOMAIN vecA.at \cap DOMAIN vecB.at
             dotProduct == SumOver([i \in both |-> vecA.at[i] * vecB.at[i]], both)
             normA == SumOver([i \in DOMAIN vecA.at |-> vecA.at[i] * vecA.at[i]], DOMAIN vecA.at)
             normB == SumOver([i \in DOMAIN vecB.at |-> vecB.at[i] * vecB.at[i]], DOMAIN vecB.at)
             denominator == Sqrt(normA) * Sqrt(normB)
         IN  IF denominator > 0 THEN FDiv(dotProduct, denominator) ELSE 0

\* String.prototype.startsWith on character sequences
startsWith(str, prefix) ==
    /\ Len(prefix) <= Len(str)
    /\ SubSeq(str, 1, Len(prefix)) = prefix

RECURSIVE InsertSortedBeforeTies(_, _, _)
\* a variant that places r in front of the elements of equal similarity
InsertSortedBeforeTies(sorted, r, k) ==
    IF k > Len(sorted) THEN Append(sorted, r)
    ELSE IF r.similarity >= sorted[k].similarity
         THEN SubSeq(sorted, 1, k - 1) \o <<r>> \o SubSeq(sorted, k, Len(sorted))
         ELSE InsertSortedBeforeTies(sorted, r, k + 1)

RECURSIVE InsertSorted(_, _, _)
\* place r behind every element that does not sort after it (b.sim - a.sim <= 0)
InsertSorted(sorted, r, k) ==
    IF k > Len(sorted) THEN Append(sorted, r)
    ELSE IF r.similarity > sorted[k].similarity
         THEN SubSeq(sorted, 1, k - 1) \o <<r>> \o SubSeq(sorted, k, Len(sorted))
         ELSE InsertSorted(sorted, r, k + 1)

RECURSIVE SortFrom(_, _, _)
SortFrom(seq, k, acc) ==
    IF k > Len(seq) THEN acc ELSE SortFrom(seq, k + 1, InsertSorted(acc, seq[k], 1))

\* results.sort((a, b) => b.similarity - a.similarity): stable, descending
SortBySimilarity(seq) == SortFrom(seq, 1, <<>>)

\* an option that was not given (undefined), and one that was
Nothing == <<>>
Given(v) == <<v>>

defaultLimit == 10

\* options.limit || 10 : undefined and 0 are falsy
EffectiveLimit(limit) ==
    IF limit = Nothing \/ limit = Given(0) THEN defaultLimit ELSE limit[1]

\* Array.prototype.slice(0, n), n possibly negative
SliceTo(seq, n) ==
    IF n >= 0 THEN SubSeq(seq, 1, Min(n, Len(seq)))
    ELSE SubSeq(seq, 1, Len(seq) + n)

\* one result: the chunk's fields without the embedding, plus the similarity
Scored(entry, queryEmbedding) ==
    [chunk |-> entry.chunk,
     similarity |-> cosineSimilarity(queryEmbedding, entry.embedding)]

\* a variant that compares the folder for equality
FolderPassesExact(r, folder) == folder = <<>> \/ r.chunk.folder = folder

LanguagePasses(r, language) == language = <<>> \/ r.chunk.language = language
FolderPasses(r, folder) == folder = <<>> \/ startsWith(r.chunk.folder, folder)

\* searchCode after the query embedding is known
SearchResults(store, queryEmbedding, options) ==
    LET scored == [k \in 1..Len(store.vectors) |-> Scored(store.vectors[k], queryEmbedding)]
        KeepLang(r) == LanguagePasses(r, options.language)
        KeepFolder(r) == FolderPasses(r, options.folder)
        filtered == SelectSeq(SelectSeq(scored, KeepLang), KeepFolder)
    IN  SliceTo(SortBySimilarity(filtered), EffectiveLimit(options.limit))

----------------------------------------------------------------------------
(* Synchronous reads of the store *)

Null == <<>>

projectExists(stores, projectId) == projectId \in DOMAIN stores

getAllProjectIds(stores) == DOMAIN stores

getProjectStats(stores, projectId) ==
    IF projectId \in DOMAIN stores THEN <<stores[projectId].stats>> ELSE Null

getProjectFiles(stores, projectId) ==
    IF projectId \in DOMAIN stores THEN <<stores[projectId].files>> ELSE Null

\* vectorStores.get(projectId): the entry, or nothing
storeGet(stores, projectId) ==
    IF projectId \in DOMAIN stores THEN <<stores[projectId]>> ELSE Null

\* vectorStores.set(projectId, entry)
storeSet(stores, projectId, entry) ==
    [p \in DOMAIN stores \cup {projectId} |->
        IF p = projectId THEN entry ELSE stores[p]]

\* a variant that empties the whole store
deleteProjectClears(stores, projectId) == <<>>

\* a variant that leaves the entry in place
deleteProjectKeeps(stores, projectId) == stores

\* vectorStores.delete(projectId)
deleteProject(stores, projectId) ==
    [p \in DOMAIN stores \ {projectId} |-> stores[p]]

----------------------------------------------------------------------------
(* indexProject: the call's local state and its loop body *)

NewIndexCall(files) ==
    [pc |-> "embedding", files |-> files, pos |-> 1, vectors |-> <<>>,
     attempts |-> <<>>, errors |-> 0, threw |-> FALSE, returned |-> Null]

IdleIndexCall ==
    [pc |-> "idle", files |-> <<>>, pos |-> 1, vectors |-> <<>>,
     attempts |-> <<>>, errors |-> 0, threw |-> FALSE, returned |-> Null]

\* a variant without the try/catch: the first failure leaves the loops
IndexStepRaises(call, result) ==
    IF result.threw
    THEN [call EXCEPT !.threw = TRUE,
                      !.attempts = Append(@, [pos |-> call.pos, ok |-> FALSE])]
    ELSE [call EXCEPT
            !.vectors = Append(@, Embedded(AllChunks(call.files)[call.pos], result.value)),
            !.attempts = Append(@, [pos |-> call.pos, ok |-> TRUE]),
            !.pos = @ + 1]

\* one pass of the inner loop body: try { push } catch { errors++ }
IndexStep(call, result) ==
    LET chunk == AllChunks(call.files)[call.pos]
    IN  [call EXCEPT
            !.vectors = IF result.threw THEN @ ELSE Append(@, Embedded(chunk, result.value)),
            !.errors = IF result.threw THEN @ + 1 ELSE @,
            !.attempts = Append(@, [pos |-> call.pos, ok |-> ~result.threw]),
            !.pos = @ + 1]

\* both loops have run to their end
IndexFinished(call) == call.pos > Len(AllChunks(call.files))

\* a variant that writes the store from inside the loops
IndexPublishesEarly(call) == TRUE

\* vectorStores.set is reached: only behind the loops
IndexPublishes(call) == IndexFinished(call)

RECURSIVE RunIndex(_, _)
\* the loop while every createEmbedding resolves without a network await
RunIndex(call, provider) ==
    IF IndexFinished(call) \/ call.threw THEN call
    ELSE RunIndex(
            IndexStep(call,
                createEmbedding(provider, AllChunks(call.files)[call.pos].content, NoNet)),
            provider)

----------------------------------------------------------------------------
(* Requests against the store and the question answering service *)

NoOptions == [language |-> <<>>, folder |-> <<>>, limit |-> Nothing]

IdleReq ==
    [kind |-> "none", pc |-> "idle", id |-> 0, held |-> Null, query |-> <<>>,
     options |-> NoOptions, path |-> <<>>, chunks |-> <<>>, trace |-> <<>>,
     embedCalls |-> 0, completionCalls |-> 0, net |-> NoNet, seen |-> "none",
     threw |-> FALSE, message |-> <<>>, result |-> <<>>]

NewReq(kind, id, query, options, path) ==
    [IdleReq EXCEPT !.kind = kind, !.pc = "running", !.id = id, !.query = query,
                    !.options = options, !.path = path]

Fail(r, message) == [r EXCEPT !.pc = "done", !.threw = TRUE, !.message = message]
Succeed(r, result) == [r EXCEPT !.pc = "done", !.result = result]

\* a variant that embeds the query before it looks the project up
searchCodeEmbedsFirst(r, stores) ==
    IF storeGet(stores, r.id) = Null
    THEN Fail([r EXCEPT !.embedCalls = @ + 1],
              <<"Project ", ToString(r.id), " not found. Please upload and index a codebase first.">>)
    ELSE [r EXCEPT !.held = storeGet(stores, r.id), !.pc = "embedding",
                   !.embedCalls = @ + 1]

\* searchCode up to its first await: look the project up, then embed the query
searchCodeLookup(r, stores) ==
    IF storeGet(stores, r.id) = Null
    THEN Fail(r, <<"Project ", ToString(r.id), " not found. Please upload and index a codebase first.">>)
    ELSE [r EXCEPT !.held = storeGet(stores, r.id), !.pc = "embedding",
                   !.embedCalls = @ + 1]

\* a variant that treats a failed query embedding as an empty result
searchCodeResumeSwallows(r, embedding) ==
    IF embedding.threw THEN [r EXCEPT !.chunks = <<>>]
    ELSE [r EXCEPT !.chunks = SearchResults(r.held[1], embedding.value, r.options)]

\* searchCode behind the await: rank against the store object it holds
searchCodeResume(r, embedding) ==
    IF embedding.threw THEN Fail(r, embedding.message)
    ELSE [r EXCEPT !.chunks = SearchResults(r.held[1], embedding.value, r.options)]

answerLimit == 8

\* a variant that spreads the caller's options behind the limit
answerSearchOptionsCallerWins(options) ==
    IF options.limit = Nothing THEN [options EXCEPT !.limit = Given(answerLimit)] ELSE options

\* { ...options, limit: 8 }
answerSearchOptions(options) == [options EXCEPT !.limit = Given(answerLimit)]
highConfidence == 8
mediumConfidence == 6

\* a variant whose thresholds are inclusive
ConfidenceInclusive(similarity) ==
    IF similarity * 10 >= highConfidence * Scale THEN "high"
    ELSE IF similarity * 10 >= mediumConfidence * Scale THEN "medium"
    ELSE "low"

\* > 0.8 ? 'high' : > 0.6 ? 'medium' : 'low'
Confidence(similarity) ==
    IF similarity * 10 > highConfidence * Scale THEN "high"
    ELSE IF similarity * 10 > mediumConfidence * Scale THEN "medium"
    ELSE "low"

\* Math.round(similarity * 100)
Percent(similarity) == ((similarity * 100) + (Scale \div 2)) \div Scale

formatReferences(chunks) ==
    [k \in 1..Len(chunks) |->
        [file |-> chunks[k].chunk.path,
         fileName |-> chunks[k].chunk.fileName,
         startLine |-> chunks[k].chunk.startLine,
         endLine |-> chunks[k].chunk.endLine,
         language |-> chunks[k].chunk.language,
         folder |-> chunks[k].chunk.folder,
         similarity |-> Percent(chunks[k].similarity),
         preview |-> Slice(chunks[k].chunk.content, 0, 5),
         isSummary |-> chunks[k].chunk.isSummary]]

NoResultsAnswer ==
    [keys |-> {"answer", "references", "confidence"},
     answer |-> PlainText(<<"I couldn't find any relevant code in the codebase to answer your question. Please make sure the codebase is properly indexed.">>),
     references |-> <<>>,
     confidence |-> "low",
     relevantFiles |-> <<>>,
     provider |-> Undefined]

AnsweredResult(answer, chunks, env) ==
    [keys |-> {"answer", "references", "confidence", "relevantFiles", "provider"},
     answer |-> answer,
     references |-> formatReferences(chunks),
     confidence |-> Confidence(chunks[1].similarity),
     relevantFiles |-> Dedupe([k \in 1..Len(chunks) |-> chunks[k].chunk.path]),
     provider |-> getProviderConfig(env).name]

Visit(r, label) == [r EXCEPT !.trace = Append(@, label)]

\* a variant whose catch block rethrows the error as it came
answerFinishRethrows(r, completion, env) ==
    IF completion.threw
    THEN Visit(Fail(r, completion.message), "GenerationFailed")
    ELSE Visit(Succeed(r, AnsweredResult(completion.value, r.chunks, env)), "Answered")

\* generateAnswer's try/catch around generateCompletion, then the return object
answerFinish(r, completion, env) ==
    IF completion.threw
    THEN Visit(Fail(r, <<"Failed to generate answer: ">> \o completion.message),
               "GenerationFailed")
    ELSE Visit(Succeed(r, AnsweredResult(completion.value, r.chunks, env)), "Answered")

\* a variant that calls the completion provider before it looks at the chunks
answerAfterSearchGeneratesFirst(r) ==
    IF Len(r.chunks) = 0
    THEN Visit(Succeed([r EXCEPT !.completionCalls = @ + 1], NoResultsAnswer), "NoResults")
    ELSE [Visit(Visit(r, "ContextBuilt"), "Generating")
            EXCEPT !.pc = "generating", !.completionCalls = @ + 1]

\* answerQuestion between the search and the completion call
answerAfterSearch(r) ==
    IF Len(r.chunks) = 0
    THEN Visit(Succeed(r, NoResultsAnswer), "NoResults")
    ELSE [Visit(Visit(r, "ContextBuilt"), "Generating")
            EXCEPT !.pc = "generating", !.completionCalls = @ + 1]

\* const file = files?.find(f => f.path === filePath)
FindFile(files, path) ==
    IF files = Null THEN Null
    ELSE LET hits == {k \in 1..Len(files[1]) : files[1][k].path = path}
         IN  IF hits = {} THEN Null
             ELSE <<files[1][CHOOSE k \in hits : \A j \in hits : k <= j]>>

\* explainFile up to its await
explainFileLookup(r, stores) ==
    LET file == FindFile(getProjectFiles(stores, r.id), r.path)
    IN  IF file = Null
        THEN Fail(r, <<"File ", r.path, " not found in project">>)
        ELSE [r EXCEPT !.held = file, !.pc = "generating", !.completionCalls = @ + 1]

maxSuggestions == 8

\* getSuggestedQuestions behind its guard: the questions pushed for the files
SuggestionsFor(files) ==
    LET Has(type) ==
            \E k \in 1..Len(files) : \E j \in 1..Len(files[k].structures) :
                files[k].structures[j].type = type
        languages == Dedupe([k \in 1..Len(files) |-> files[k].language])
        Opt(cond, question) == IF cond THEN <<question>> ELSE <<>>
        suggestions ==
            <<"What is the overall architecture of this codebase?",
              "What are the main entry points of this application?">>
            \o (IF FileText.ts \in Range(languages) \/ FileText.js \in Range(languages)
                THEN <<"Where is the main configuration located?",
                       "How is error handling implemented?">>
                ELSE <<>>)
            \o Opt(Has(FileText.component), "What are the main UI components in this project?")
            \o Opt(Has(FileText.class), "What are the main classes and their responsibilities?")
            \o Opt(Has(FileText.interface), "What data models or interfaces are defined?")
            \o <<"Where is authentication handled?",
                 "How is data validation implemented?">>
    IN  Slice(suggestions, 0, maxSuggestions)

\* a variant without the test for an empty file list
getSuggestedQuestionsOfAnyList(stores, projectId) ==
    LET files == getProjectFiles(stores, projectId)
    IN  IF files = Null THEN <<>> ELSE SuggestionsFor(files[1])

\* getSuggestedQuestions(projectId)
getSuggestedQuestions(stores, projectId) ==
    LET files == getProjectFiles(stores, projectId)
    IN  IF files = Null \/ Len(files[1]) = 0 THEN <<>> ELSE SuggestionsFor(files[1])

\* explainFile behind the await: return the explanation, or rethrow the error
explainFileFinish(r, completion, env) ==
    IF completion.threw THEN Fail(r, completion.message)
    ELSE Succeed(r,
            [explanation |-> completion.value,
             file |-> [path |-> r.held[1].path, fileName |-> r.held[1].fileName,
                       language |-> r.held[1].language,
                       lineCount |-> Len(r.held[1].content),
                       structures |-> r.held[1].structures],
             provider |-> getProviderConfig(env).name])

----------------------------------------------------------------------------
(* Inputs of the requests *)

Queries == { << <<FileText.add>> >> }

SearchOptions == {[language |-> l, folder |-> <<>>, limit |-> Nothing] : l \in {<<>>, FileText.py}}

AnswerOptions == {[language |-> l, folder |-> <<>>, limit |-> Nothing] : l \in {<<>>, FileText.py}}

ExplainPaths == {FileText.appPath, P_missing}

----------------------------------------------------------------------------
(* The state machine *)

Provider == getProvider(envProvider)

\* no function has been applied on its own
NoProbe == [fn |-> "none", arg |-> <<>>, out |-> <<>>]

Init ==
    /\ envProvider \in EnvValues
    /\ vectorStores = <<>>
    /\ nextId = 0
    /\ indexCalls = [p \in ProjectIds |-> IdleIndexCall]
    /\ req = [s \in Slots |-> IdleReq]
    /\ lastWrite = [p \in ProjectIds |-> "none"]
    /\ probe = NoProbe

\* new Date().toISOString(): the number of index calls that finished earlier
Now == Cardinality({p \in ProjectIds : indexCalls[p].pc = "done"})

\* the end of a task of indexProject: publish and return, or stay suspended
IndexCommit(id, call) ==
    LET entry == StoreEntry(call.files, call.vectors, Now)
    IN  /\ vectorStores' =
              IF IndexPublishes(call) THEN storeSet(vectorStores, id, entry)
              ELSE vectorStores
        /\ lastWrite' =
              IF IndexPublishes(call) THEN [lastWrite EXCEPT ![id] = "index"]
              ELSE lastWrite
        /\ indexCalls' =
              [indexCalls EXCEPT ![id] =
                  IF call.threw THEN [call EXCEPT !.pc = "done"]
                  ELSE IF IndexFinished(call)
                       THEN [call EXCEPT !.pc = "done", !.returned = <<entry.stats>>]
                       ELSE call]

\* the upload route draws a fresh id and calls indexProject(id, files);
\* uploads bounds the number of uploads
IndexStart(files, uploads) ==
    /\ ModuleLoaded(envProvider)
    /\ nextId < uploads
    /\ nextId' = nextId + 1
    /\ IndexCommit(nextId + 1,
           IF EmbeddingAwaitsNetwork(Provider) THEN NewIndexCall(files)
           ELSE RunIndex(NewIndexCall(files), Provider))
    /\ UNCHANGED <<envProvider, req, probe>>

\* the awaited embedding call of indexProject settles
IndexEmbedReturn(id, net) ==
    /\ indexCalls[id].pc = "embedding"
    /\ LET call == indexCalls[id]
           text == AllChunks(call.files)[call.pos].content
       IN  IndexCommit(id, IndexStep(call, createEmbedding(Provider, text, net)))
    /\ UNCHANGED <<envProvider, nextId, req, probe>>

\* deleteProject(id)
DeleteProject(id) ==
    /\ ModuleLoaded(envProvider)
    /\ vectorStores' = deleteProject(vectorStores, id)
    /\ lastWrite' = [lastWrite EXCEPT ![id] = "delete"]
    /\ UNCHANGED <<envProvider, nextId, indexCalls, req, probe>>

\* the storage cleanup route: getAllProjectIds().forEach(id => deleteProject(id))
CleanupAll ==
    /\ ModuleLoaded(envProvider)
    /\ vectorStores # <<>>
    /\ vectorStores' = <<>>
    /\ lastWrite' = [p \in ProjectIds |->
                        IF p \in getAllProjectIds(vectorStores) THEN "delete"
                        ELSE IF indexCalls[p].pc = "embedding" THEN "swept"
                        ELSE lastWrite[p]]
    /\ UNCHANGED <<envProvider, nextId, indexCalls, req, probe>>

\* a variant in which a request evicts the project it has read
ReqStepEvicts(s, r) ==
    /\ req' = [req EXCEPT ![s] = r]
    /\ vectorStores' = deleteProject(vectorStores, r.id)
    /\ UNCHANGED <<envProvider, nextId, indexCalls, lastWrite, probe>>

\* a request's task ends with the slot's new value; the store is not written
ReqStep(s, r) ==
    /\ req' = [req EXCEPT ![s] = r]
    /\ UNCHANGED <<envProvider, vectorStores, nextId, indexCalls, lastWrite, probe>>

CanStart(s) == ModuleLoaded(envProvider) /\ req[s].pc = "idle"

\* a request enters the service; seen notes the last write for its id so far
Arrive(kind, id, query, options, path) ==
    [NewReq(kind, id, query, options, path)
        EXCEPT !.seen = IF id \in ProjectIds THEN lastWrite[id] ELSE "none"]

\* searchCode from the embedding result to its return
SearchFinish(r, embedding) ==
    LET r1 == searchCodeResume(r, embedding)
    IN  IF r1.threw THEN r1 ELSE Succeed(r1, r1.chunks)

\* answerQuestion from the embedding result on, as far as it runs without a
\* network await
AnswerContinue(r, embedding) ==
    LET r1 == searchCodeResume(r, embedding)
        r2 == answerAfterSearch(r1)
    IN  IF r1.threw THEN Visit(r1, "SearchFailed")
        ELSE IF r2.pc = "generating" /\ ~CompletionAwaitsNetwork(Provider)
        THEN answerFinish(r2,
                 generateCompletion(Provider,
                     AnswerPrompt(r2.query, buildContext(r2.chunks)), NoNet),
                 envProvider)
        ELSE r2

SearchStart(s, id, query, options) ==
    /\ CanStart(s)
    /\ LET r == searchCodeLookup(Arrive("search", id, query, options, <<>>), vectorStores)
       IN  ReqStep(s, IF r.pc = "embedding" /\ ~EmbeddingAwaitsNetwork(Provider)
                      THEN SearchFinish(r, createEmbedding(Provider, query, NoNet))
                      ELSE r)

AnswerStart(s, id, question, options) ==
    /\ CanStart(s)
    /\ LET r0 == Visit(Visit(Arrive("answer", id, question,
                                    answerSearchOptions(options), <<>>),
                             "Received"), "Searching")
           r == searchCodeLookup(r0, vectorStores)
       IN  ReqStep(s, IF r.threw THEN Visit(r, "SearchFailed")
                      ELSE IF ~EmbeddingAwaitsNetwork(Provider)
                      THEN AnswerContinue(r, createEmbedding(Provider, question, NoNet))
                      ELSE r)

\* the awaited query embedding of a search or answer request settles
EmbedReturn(s, net) ==
    /\ req[s].pc = "embedding"
    /\ LET r == [req[s] EXCEPT !.net = net]
           embedding == createEmbedding(Provider, r.query, net)
       IN  ReqStep(s, IF r.kind = "search" THEN SearchFinish(r, embedding)
                      ELSE AnswerContinue(r, embedding))

ExplainStart(s, id, path) ==
    /\ CanStart(s)
    /\ LET r == explainFileLookup(Arrive("explain", id, <<>>, NoOptions, path), vectorStores)
       IN  ReqStep(s, IF r.pc = "generating" /\ ~CompletionAwaitsNetwork(Provider)
                      THEN explainFileFinish(r,
                               generateCompletion(Provider, ExplainPrompt(r.held[1]), NoNet),
                               envProvider)
                      ELSE r)

\* the awaited completion call of an answer or explainFile request settles
CompletionReturn(s, net) ==
    /\ req[s].pc = "generating"
    /\ LET r == [req[s] EXCEPT !.net = net]
       IN  ReqStep(s,
             IF r.kind = "answer"
             THEN answerFinish(r,
                      generateCompletion(Provider,
                          AnswerPrompt(r.query, buildContext(r.chunks)), net),
                      envProvider)
             ELSE explainFileFinish(r,
                      generateCompletion(Provider, ExplainPrompt(r.held[1]), net),
                      envProvider))

\* the synchronous reads
Exists(s, id) ==
    /\ CanStart(s)
    /\ ReqStep(s, Succeed(Arrive("exists", id, <<>>, NoOptions, <<>>),
                          projectExists(vectorStores, id)))

ListIds(s) ==
    /\ CanStart(s)
    /\ ReqStep(s, Succeed(Arrive("listIds", 0, <<>>, NoOptions, <<>>),
                          getAllProjectIds(vectorStores)))

Stats(s, id) ==
    /\ CanStart(s)
    /\ ReqStep(s, Succeed(Arrive("stats", id, <<>>, NoOptions, <<>>),
                          getProjectStats(vectorStores, id)))

Files(s, id) ==
    /\ CanStart(s)
    /\ ReqStep(s, Succeed(Arrive("files", id, <<>>, NoOptions, <<>>),
                          getProjectFiles(vectorStores, id)))

\* the response has been sent; the slot serves the next request
Retire(s) ==
    /\ req[s].pc = "done"
    /\ ReqStep(s, IdleReq)

Next ==
    \/ \E files \in FileLists : IndexStart(files, MaxUploads)
    \/ \E id \in ProjectIds, net \in EmbeddingNet : IndexEmbedReturn(id, net)
    \/ \E id \in ProjectIds : DeleteProject(id)
    \/ CleanupAll
    \/ \E s \in Slots, id \in ProjectIds, q \in Queries, o \in SearchOptions :
          SearchStart(s, id, q, o)
    \/ \E s \in Slots, id \in ProjectIds, q \in Queries, o \in AnswerOptions :
          AnswerStart(s, id, q, o)
    \/ \E s \in Slots, id \in ProjectIds, path \in ExplainPaths : ExplainStart(s, id, path)
    \/ \E s \in Slots, net \in EmbeddingNet : EmbedReturn(s, net)
    \/ \E s \in Slots, net \in CompletionNet : CompletionReturn(s, net)
    \/ \E s \in Slots, id \in ProjectIds : Exists(s, id)
    \/ \E s \in Slots : ListIds(s)
    \/ \E s \in Slots, id \in ProjectIds : Stats(s, id)
    \/ \E s \in Slots, id \in ProjectIds : Files(s, id)
    \/ \E s \in Slots : Retire(s)

Spec == Init /\ [][Next]_vars

----------------------------------------------------------------------------
(* Observations shared by the properties *)

\* what a reader can see of a project id
Visible(id) ==
    \/ projectExists(vectorStores, id)
    \/ id \in getAllProjectIds(vectorStores)
    \/ getProjectStats(vectorStores, id) # Null
    \/ getProjectFiles(vectorStores, id) # Null
    \/ storeGet(vectorStores, id) # Null

\* the positions 1..n, each attempted once, in order
OncePerChunk(call, n) ==
    /\ Len(call.attempts) = n
    /\ \A k \in 1..n : call.attempts[k].pos = k

\* the chunks of the call whose embedding attempt succeeded, in order
SucceededChunks(call) ==
    LET Ok(a) == a.ok
        oks == SelectSeq(call.attempts, Ok)
    IN  [k \in 1..Len(oks) |-> AllChunks(call.files)[oks[k].pos]]

StoredChunks(vectors) == [k \in 1..Len(vectors) |-> vectors[k].chunk]

IsLookupFailure(r) ==
    /\ r.threw
    /\ Len(r.message) > 0
    /\ r.message[1] \in {"Project ", "File "}

\* the request hands project data to its caller
ReturnsProjectData(r) ==
    /\ r.pc = "done"
    /\ ~r.threw
    /\ \/ r.kind = "search" /\ r.result # <<>>
       \/ r.kind = "answer" /\ r.result.references # <<>>
       \/ r.kind = "explain"

----------------------------------------------------------------------------
(* C1 *)

\* C1: a project id is visible only after its index call has attempted every
\* chunk of every file.  While the call is suspended between embedding calls
\* the id is absent; once visible, the stored chunks, files and stats are the
\* final ones of the finished call, and a search that holds the store holds
\* that complete entry.
C1_AbsentOrFullyIndexed ==
    /\ \A id \in ProjectIds :
          LET call == indexCalls[id]
              n == Len(AllChunks(call.files))
          IN  /\ call.pc \in {"idle", "embedding"} => ~Visible(id)
              /\ Visible(id) =>
                    /\ call.pc = "done"
                    /\ OncePerChunk(call, n)
                    /\ vectorStores[id].files = call.files
                    /\ vectorStores[id].vectors = call.vectors
                    /\ StoredChunks(vectorStores[id].vectors) = SucceededChunks(call)
                    /\ <<vectorStores[id].stats>> = call.returned
                    /\ vectorStores[id].stats.totalChunks = Len(call.vectors)
                    /\ vectorStores[id].stats.totalFiles = Len(call.files)
    /\ \A s \in Slots :
          LET r == req[s]
          IN  /\ r.kind \in {"search", "answer"} /\ r.held # Null =>
                    /\ indexCalls[r.id].pc = "done"
                    /\ r.held[1].vectors = indexCalls[r.id].vectors
                    /\ r.held[1].files = indexCalls[r.id].files
              /\ r.kind = "exists" /\ r.pc = "done" /\ r.result =>
                    indexCalls[r.id].pc = "done"
              /\ r.kind \in {"stats", "files"} /\ r.pc = "done" /\ r.result # Null =>
                    indexCalls[r.id].pc = "done"

\* an index call is suspended behind its first chunks and a reader was told
\* that the project does not exist
C1_Witness ==
    \E id \in ProjectIds, s \in Slots :
        /\ indexCalls[id].pc = "embedding"
        /\ indexCalls[id].pos > 1
        /\ Len(indexCalls[id].vectors) > 0
        /\ ~Visible(id)
        /\ req[s].kind = "exists" /\ req[s].pc = "done" /\ req[s].id = id
        /\ req[s].result = FALSE

----------------------------------------------------------------------------
(* C2 *)

\* C2: once deleteProject(id) has returned and is the last write for id, no
\* search, answer or explainFile request on id hands chunks, references or
\* file content of the project to its caller, requests suspended in an
\* embedding or completion call when the delete ran included.
C2_DeleteExcludesReaders ==
    [][\A s \in Slots :
          (/\ req[s].pc \in {"embedding", "generating"}
           /\ lastWrite[req[s].id] = "delete"
           /\ ~projectExists(vectorStores, req[s].id)
           /\ req'[s].pc = "done")
          => ~ReturnsProjectData(req'[s])]_vars

----------------------------------------------------------------------------
(* C3 *)

\* C3: while deleteProject(id) is the last write for id, exists(id) is false,
\* listIds does not contain id, stats(id) and files(id) return no data, and a
\* search started on id fails with the project-not-found error before any
\* provider call.
C3_DeletedStaysAbsent ==
    \A id \in ProjectIds :
        lastWrite[id] = "delete" =>
            /\ ~projectExists(vectorStores, id)
            /\ id \notin getAllProjectIds(vectorStores)
            /\ getProjectStats(vectorStores, id) = Null
            /\ getProjectFiles(vectorStores, id) = Null
            /\ \A q \in Queries, o \in SearchOptions :
                  LET r == searchCodeLookup(NewReq("search", id, q, o, <<>>), vectorStores)
                  IN  /\ r.pc = "done"
                      /\ r.threw
                      /\ r.message = <<"Project ", ToString(id),
                                       " not found. Please upload and index a codebase first.">>
            /\ \A s \in Slots :
                  LET r == req[s]
                  IN  r.pc # "idle" /\ r.id = id /\ r.seen = "delete" =>
                        /\ r.kind \in {"search", "answer", "explain"} =>
                              r.pc = "done" /\ IsLookupFailure(r)
                        /\ r.kind = "exists" => r.result = FALSE
                        /\ r.kind \in {"stats", "files"} => r.result = Null

\* a project was indexed, then deleted, and a search on it was refused
C3_Witness ==
    \E id \in ProjectIds, s \in Slots :
        /\ indexCalls[id].pc = "done"
        /\ Len(indexCalls[id].vectors) > 0
        /\ lastWrite[id] = "delete"
        /\ req[s].kind = "search" /\ req[s].id = id /\ req[s].pc = "done"
        /\ req[s].seen = "delete"
        /\ req[s].threw /\ req[s].message[1] = "Project "

----------------------------------------------------------------------------
(* C4 *)

PathInProject(id, path) == FindFile(getProjectFiles(vectorStores, id), path) # Null

\* C4: a search or answer that arrives for an id outside the project set, and
\* an explainFile that arrives for an absent project or for a path outside the
\* project's file list, ends at once with the lookup error, having made no
\* embedding call and no completion call.
C4_LookupBeforeProvider ==
    [][\A s \in Slots :
          req[s].pc = "idle" /\ req'[s].pc # "idle" =>
             LET r == req'[s]
             IN  /\ r.kind \in {"search", "answer"} /\ ~projectExists(vectorStores, r.id) =>
                       /\ r.pc = "done" /\ IsLookupFailure(r) /\ r.message[1] = "Project "
                       /\ r.embedCalls = 0 /\ r.completionCalls = 0
                 /\ r.kind = "explain" /\ ~PathInProject(r.id, r.path) =>
                       /\ r.pc = "done" /\ IsLookupFailure(r) /\ r.message[1] = "File "
                       /\ r.embedCalls = 0 /\ r.completionCalls = 0]_vars

\* explainFile was refused for a path that an existing project does not hold,
\* without a provider call
C4_Witness ==
    \E s \in Slots :
        /\ req[s].kind = "explain" /\ req[s].pc = "done"
        /\ projectExists(vectorStores, req[s].id)
        /\ ~PathInProject(req[s].id, req[s].path)
        /\ req[s].seen = "index"
        /\ IsLookupFailure(req[s])
        /\ req[s].completionCalls = 0

----------------------------------------------------------------------------
(* C5 *)

\* C5: whichever embedding calls fail, indexProject does not raise, attempts
\* each chunk once and in order, keeps exactly the chunks whose embedding
\* succeeded, and returns stats whose totalChunks is the number of kept
\* chunks and whose totalFiles is the number of input files.
C5_IndexAbsorbsFailures ==
    \A id \in ProjectIds :
        LET call == indexCalls[id]
            n == Len(AllChunks(call.files))
        IN  /\ ~call.threw
            /\ OncePerChunk(call, call.pos - 1)
            /\ StoredChunks(call.vectors) = SucceededChunks(call)
            /\ Len(call.vectors) + call.errors = call.pos - 1
            /\ call.pc = "embedding" => call.pos <= n /\ call.returned = Null
            /\ call.pc = "done" =>
                  /\ call.pos = n + 1
                  /\ call.returned # Null
                  /\ call.returned[1].totalChunks = Len(call.vectors)
                  /\ call.returned[1].totalFiles = Len(call.files)

\* an index call over two files finished with some chunks dropped and some
\* kept, and the project is visible with the kept ones
C5_Witness ==
    \E id \in ProjectIds :
        /\ indexCalls[id].pc = "done"
        /\ Len(indexCalls[id].files) = 2
        /\ indexCalls[id].errors > 0
        /\ Len(indexCalls[id].vectors) > 0
        /\ Visible(id)
        /\ vectorStores[id].stats.totalChunks = Len(indexCalls[id].vectors)

----------------------------------------------------------------------------
(* C6 *)

\* a search or answer request ended with the error of its query embedding
EmbeddingFailed(r) ==
    /\ r.kind \in {"search", "answer"}
    /\ r.pc = "done"
    /\ r.threw
    /\ r.embedCalls = 1
    /\ r.completionCalls = 0

\* every stored vector of the project comes from the set allowed for it
StoredFrom(id, Allowed(_)) ==
    \A k \in 1..Len(indexCalls[id].vectors) :
        Allowed(indexCalls[id].vectors[k])

\* C6 as stated: whatever the provider, no index call drops a chunk for an
\* embedding error and no search or answer ends with an embedding error.
C6_EmbeddingNeverRaises ==
    /\ \A id \in ProjectIds : indexCalls[id].errors = 0
    /\ \A s \in Slots : ~EmbeddingFailed(req[s])

\* C6 amended: createEmbedding does not raise for the local provider (a
\* network failure yields the offline vector of the text), nor for remote B
\* and the offline provider (no network call, always the offline vector).
\* For remote A a network failure is rethrown with its message: indexProject
\* drops the chunk and goes on, search and answer end with that error.
C6_EmbeddingFailureByProvider ==
    LET IsOffline(e) == e.embedding = createSimpleEmbedding(e.chunk.content)
        IsRemote(e) == e.embedding \in RemoteVectors
        Either(e) == IsRemote(e) \/ IsOffline(e)
    IN  /\ Provider # AI_PROVIDERS.OPENAI =>
              /\ \A id \in ProjectIds : indexCalls[id].errors = 0
              /\ \A s \in Slots : ~EmbeddingFailed(req[s])
        /\ Provider \notin {AI_PROVIDERS.OPENAI, AI_PROVIDERS.OLLAMA} =>
              \A id \in ProjectIds : StoredFrom(id, IsOffline)
        /\ Provider = AI_PROVIDERS.OLLAMA =>
              /\ \A id \in ProjectIds :
                    /\ StoredFrom(id, Either)
                    /\ indexCalls[id].pc = "done" =>
                          Len(indexCalls[id].vectors) = Len(AllChunks(indexCalls[id].files))
              /\ \A s \in Slots :
                    LET r == req[s]
                    IN  r.kind = "search" /\ r.pc = "done" /\ r.embedCalls = 1 /\ ~r.net.ok =>
                          /\ ~r.threw
                          /\ r.result = SearchResults(r.held[1],
                                            createSimpleEmbedding(r.query), r.options)
        /\ Provider = AI_PROVIDERS.OPENAI =>
              /\ \A id \in ProjectIds :
                    ~indexCalls[id].threw /\ StoredFrom(id, IsRemote)
              /\ \A s \in Slots :
                    LET r == req[s]
                    IN  /\ EmbeddingFailed(r) => ~r.net.ok /\ r.message = <<r.net.message>>
                        /\ r.kind \in {"search", "answer"} /\ r.pc = "done"
                           /\ r.embedCalls = 1 /\ r.completionCalls = 0 /\ ~r.net.ok =>
                              EmbeddingFailed(r)

\* under the local provider a failed embedding call left the offline vector of
\* the chunk in the store next to a vector the endpoint answered with
C6_Witness ==
    /\ Provider = AI_PROVIDERS.OLLAMA
    /\ \E id \in ProjectIds :
          /\ Visible(id)
          /\ \E k \in 1..Len(vectorStores[id].vectors) :
                LET e == vectorStores[id].vectors[k]
                IN  e.embedding = createSimpleEmbedding(e.chunk.content)
          /\ \E k \in 1..Len(vectorStores[id].vectors) :
                vectorStores[id].vectors[k].embedding \in RemoteVectors

----------------------------------------------------------------------------
(* C7 *)

\* the completion call of the request settled with a failure
CompletionFailed(r) ==
    /\ r.kind \in {"answer", "explain"}
    /\ r.pc = "done"
    /\ r.completionCalls = 1
    /\ ~r.net.ok

\* C7: when the completion call of an answer request fails, the request ends
\* in an error at GenerationFailed with no result object (no answer text,
\* references, confidence or relevantFiles), and an answer produced behind a
\* network completion call is never the offline template.
C7_GenerationFailureIsTerminal ==
    \A s \in Slots :
        LET r == req[s]
        IN  /\ r.kind = "answer" /\ CompletionFailed(r) =>
                  /\ Len(r.chunks) >= 1
                  /\ r.threw
                  /\ r.result = <<>>
                  /\ r.trace[Len(r.trace)] = "GenerationFailed"
            /\ r.kind = "answer" /\ r.pc = "done" /\ ~r.threw /\ r.completionCalls = 1
               /\ CompletionAwaitsNetwork(Provider) =>
                  /\ r.net.ok
                  /\ ~r.result.answer.demo

\* under the local provider an answer request found chunks and its completion
\* call failed
C7_Witness ==
    /\ Provider = AI_PROVIDERS.OLLAMA
    /\ \E s \in Slots :
          /\ req[s].kind = "answer" /\ CompletionFailed(req[s])
          /\ Len(req[s].chunks) >= 1
          /\ req[s].threw

----------------------------------------------------------------------------
(* C8 *)

\* the prompt the request hands to generateCompletion
PromptOf(r) ==
    IF r.kind = "answer" THEN AnswerPrompt(r.query, buildContext(r.chunks))
    ELSE ExplainPrompt(r.held[1])

\* the message of the error generateCompletion threw to the request
ProviderError(r) == generateCompletion(Provider, PromptOf(r), r.net).message

AnswerErrorPrefix == "Failed to generate answer: "

\* C8 as stated: answer() and explainFile() both end with the completion
\* provider's error message unchanged.
C8_SurfacedVerbatim ==
    \A s \in Slots :
        CompletionFailed(req[s]) =>
            req[s].threw /\ req[s].message = ProviderError(req[s])

\* C8 amended: explainFile() ends with the message of the error that
\* generateCompletion threw, unchanged; answer() ends with a new error whose
\* message is "Failed to generate answer: " followed by that message.  The
\* error generateCompletion throws carries the client's message for remote A
\* and remote B and a fixed "Ollama is not running" message for the local
\* provider.
C8_SurfacedPerCaller ==
    \A s \in Slots :
        LET r == req[s]
        IN  CompletionFailed(r) =>
              /\ r.threw
              /\ ProviderError(r) =
                    IF Provider = AI_PROVIDERS.OLLAMA
                    THEN <<"Ollama is not running. Start it with: ollama serve">>
                    ELSE <<r.net.message>>
              /\ r.kind = "explain" => r.message = ProviderError(r)
              /\ r.kind = "answer" => r.message = <<AnswerErrorPrefix>> \o ProviderError(r)

\* under remote B an answer request ended with the prefixed client error
C8_Witness ==
    /\ Provider = AI_PROVIDERS.GROQ
    /\ \E s \in Slots :
          /\ req[s].kind = "answer" /\ CompletionFailed(req[s])
          /\ req[s].message = <<AnswerErrorPrefix, req[s].net.message>>

----------------------------------------------------------------------------
(* C9 *)

RecognizedKeys ==
    {AI_PROVIDERS.OPENAI, AI_PROVIDERS.OLLAMA, AI_PROVIDERS.GROQ, AI_PROVIDERS.DEMO}

\* C9: with a provider key that is none of the four literal values,
\* createEmbedding returns the offline vector, generateCompletion returns the
\* offline template, the status computed at module load and the status and
\* config lookups succeed, and they carry the offline provider's values.
C9_UnrecognizedKeyIsOffline ==
    Provider \notin RecognizedKeys =>
        /\ \A q \in Queries :
              /\ createEmbedding(Provider, q, NoNet) = Return(createSimpleEmbedding(q))
              /\ generateCompletion(Provider, AnswerPrompt(q, <<>>), NoNet)
                    = Return(generateDemoCompletion(AnswerPrompt(q, <<>>)))
        /\ ModuleLoaded(envProvider)
        /\ \A hasKey \in BOOLEAN :
              /\ ~getProviderStatus(envProvider, hasKey).threw
              /\ getProviderStatus(envProvider, hasKey).value.name = providerConfigs.demo.name
        /\ getProviderConfig(envProvider).name = providerConfigs.demo.name

----------------------------------------------------------------------------
(* C10 *)

Last(seq) == seq[Len(seq)]

AnswerEndings == {"NoResults", "Answered", "GenerationFailed"}

\* C10 as stated: an answer request on a project that existed when it arrived
\* ends in NoResults, Answered or GenerationFailed.
C10_ThreeEndings ==
    \A s \in Slots :
        LET r == req[s]
        IN  r.kind = "answer" /\ r.pc = "done" /\ r.held # Null =>
              Last(r.trace) \in AnswerEndings

\* C10 amended: an answer request follows Received, Searching, then NoResults,
\* or ContextBuilt, Generating and then Answered or GenerationFailed, or it
\* leaves Searching with the error of the search: the project-not-found error,
\* or, under remote A, the error of the query embedding.  It makes at most one
\* completion call and only with at least one chunk; with a provider other
\* than remote A a request on an existing project ends in one of the three
\* endings.
C10_AnswerPaths ==
    \A s \in Slots :
        LET r == req[s]
        IN  r.kind = "answer" =>
              /\ r.trace \in
                   {<<"Received", "Searching">>,
                    <<"Received", "Searching", "NoResults">>,
                    <<"Received", "Searching", "SearchFailed">>,
                    <<"Received", "Searching", "ContextBuilt", "Generating">>,
                    <<"Received", "Searching", "ContextBuilt", "Generating", "Answered">>,
                    <<"Received", "Searching", "ContextBuilt", "Generating",
                      "GenerationFailed">>}
              /\ r.pc = "done" <=> Last(r.trace) \in AnswerEndings \cup {"SearchFailed"}
              /\ r.pc = "embedding" <=> Last(r.trace) = "Searching"
              /\ r.pc = "generating" <=> Last(r.trace) = "Generating"
              /\ r.completionCalls = (IF Len(r.trace) > 3 THEN 1 ELSE 0)
              /\ r.completionCalls = 1 => Len(r.chunks) >= 1
              /\ Last(r.trace) = "NoResults" => Len(r.chunks) = 0 /\ ~r.threw
              /\ Last(r.trace) = "Answered" => ~r.threw
              /\ Last(r.trace) = "GenerationFailed" => r.threw
              /\ Last(r.trace) = "SearchFailed" =>
                    /\ r.threw
                    /\ r.held = Null => IsLookupFailure(r) /\ r.embedCalls = 0
                    /\ r.held # Null =>
                          /\ Provider = AI_PROVIDERS.OPENAI
                          /\ ~r.net.ok
                          /\ r.message = <<r.net.message>>
              /\ r.pc = "done" /\ r.embedCalls = 1 /\ r.completionCalls = 0
                 /\ ~r.net.ok /\ Provider = AI_PROVIDERS.OPENAI =>
                    Last(r.trace) = "SearchFailed"
              /\ r.pc = "done" /\ r.held # Null /\ Provider # AI_PROVIDERS.OPENAI =>
                    Last(r.trace) \in AnswerEndings

\* under remote A an answer request on an existing project ended in the
\* search, with the error of the query embedding and no completion call
C10_Witness ==
    \E s \in Slots :
        /\ req[s].kind = "answer" /\ req[s].pc = "done"
        /\ req[s].held # Null
        /\ Last(req[s].trace) = "SearchFailed"
        /\ req[s].message = <<req[s].net.message>>
        /\ req[s].completionCalls = 0

----------------------------------------------------------------------------
(* C11 *)

\* the search of the answer request came back without an error
SearchReturned(r) ==
    /\ r.kind = "answer"
    /\ r.held # Null
    /\ r.pc \in {"generating", "done"}
    /\ ~(r.threw /\ r.completionCalls = 0)

NotFoundText ==
    <<"I couldn't find any relevant code in the codebase to answer your question. Please make sure the codebase is properly indexed.">>

\* C11: when the search of an answer request returns zero chunks (a project
\* without chunks, or filters that match nothing), the request returns the
\* fixed not-found message with an empty reference list and confidence 'low',
\* and makes no completion call.
C11_NoResultsWithoutCompletion ==
    \A s \in Slots :
        LET r == req[s]
        IN  SearchReturned(r) /\ Len(r.chunks) = 0 =>
              /\ r.pc = "done"
              /\ ~r.threw
              /\ r.result.answer.text = NotFoundText
              /\ ~r.result.answer.demo
              /\ r.result.references = <<>>
              /\ r.result.confidence = "low"
              /\ r.completionCalls = 0

\* an answer request filtered by a language that no chunk of an indexed,
\* non-empty project has came back with the fixed message
C11_Witness ==
    \E s \in Slots :
        /\ SearchReturned(req[s])
        /\ Len(req[s].held[1].vectors) > 0
        /\ req[s].options.language # <<>>
        /\ Len(req[s].chunks) = 0
        /\ req[s].pc = "done"
        /\ req[s].result.references = <<>>

----------------------------------------------------------------------------
(* C12 *)

AnswerFields == {"answer", "references", "confidence", "relevantFiles", "provider"}

\* C12: every result that answerQuestion returns without an error, at
\* NoResults as well as at Answered, carries the five fields answer,
\* references, confidence (high, medium or low), relevantFiles and the name
\* of the active provider.
C12_FiveFields ==
    \A s \in Slots :
        LET r == req[s]
        IN  r.kind = "answer" /\ r.pc = "done" /\ ~r.threw =>
              /\ r.result.keys = AnswerFields
              /\ r.result.confidence \in {"high", "medium", "low"}
              /\ r.result.provider = providerConfigs[Provider].name

----------------------------------------------------------------------------
(* The pure functions of the services, each applied to inputs of its own *)

MaxLines == 130
MaxWords == 3

RECURSIVE RunIndexWith(_, _, _)
\* the loops of indexProject when every embedding call settles with net
RunIndexWith(call, provider, net) ==
    IF IndexFinished(call) \/ call.threw THEN call
    ELSE RunIndexWith(
            IndexStep(call,
                createEmbedding(provider, AllChunks(call.files)[call.pos].content, net)),
            provider, net)

\* the outcomes an embedding call of the provider can have; an endpoint also
\* answers with negative components, with zeros only, or with a body that
\* holds no embedding (the value read from it is then undefined, dim < 0)
ProbeNets(provider) ==
    IF EmbeddingAwaitsNetwork(provider)
    THEN EmbeddingNet \cup
         {[ok |-> TRUE, vec |-> v, text |-> <<>>, message |-> ""] :
             v \in {[dim |-> 2, at |-> (0 :> (0 - 600) @@ 1 :> (0 - 800))],
                    ZeroVector(2),
                    [dim |-> 0 - 1, at |-> <<>>]}}
    ELSE {NoNet}

ProbeFileLists == FileLists \cup { <<FileApp, FileUtil, FileBlank>> }

\* filters and limits of a search; <<115>> is "s", a proper prefix of "src"
ProbeOptions ==
    {[language |-> l, folder |-> f, limit |-> n] :
        l \in {<<>>, FileText.js, FileText.py},
        f \in {<<>>, FileText.src, <<115>>},
        n \in {Nothing, Given(0), Given(1), Given(2), Given(0 - 1), Given(12)}}

\* searchCode on a project that indexProject built from files
ProbeSearch(files, inet, qnet, query, options) ==
    /\ ModuleLoaded(envProvider)
    /\ probe = NoProbe
    /\ LET call == RunIndexWith(NewIndexCall(files), Provider, inet)
           stores == storeSet(<<>>, 1, StoreEntry(files, call.vectors, 0))
           r == searchCodeLookup(NewReq("search", 1, query, options, <<>>), stores)
       IN  probe' = [fn |-> "searchCode",
                     arg |-> [files |-> files, store |-> stores[1], options |-> options,
                              embedding |-> createEmbedding(Provider, query, qnet)],
                     out |-> SearchFinish(r, createEmbedding(Provider, query, qnet))]
    /\ UNCHANGED <<envProvider, vectorStores, nextId, indexCalls, req, lastWrite>>

\* a parsed file of L lines: text on every line, on the first line only, on
\* the last line only, or on no line
ProbeFile(L, pattern) ==
    [FileApp EXCEPT !.content =
        [k \in 1..L |->
            IF \/ pattern = "full"
               \/ pattern = "head" /\ k = 1
               \/ pattern = "tail" /\ k = L
            THEN <<FileText.add>> ELSE <<>>]]

\* chunkContent on one file
ProbeChunk(L, pattern) ==
    /\ ModuleLoaded(envProvider)
    /\ probe = NoProbe
    /\ probe' = [fn |-> "chunkContent",
                 arg |-> ProbeFile(L, pattern),
                 out |-> chunkContent(ProbeFile(L, pattern))]
    /\ UNCHANGED <<envProvider, vectorStores, nextId, indexCalls, req, lastWrite>>

\* the similarities a ranked chunk can have: 0, 0.6, just above, 0.8, just
\* above, 1
ProbeLevels ==
    {0, (6 * Scale) \div 10, ((6 * Scale) \div 10) + 1,
     (8 * Scale) \div 10, ((8 * Scale) \div 10) + 1, Scale}

\* the return object of answerQuestion for one or two ranked chunks
ProbeLabel(s1, s2, two) ==
    /\ ModuleLoaded(envProvider)
    /\ probe = NoProbe
    /\ s2 <= s1
    /\ LET top == [chunk |-> SummaryChunk(FileApp), similarity |-> s1]
           next == [chunk |-> Window(FileApp, 0), similarity |-> s2]
           chunks == IF two THEN <<top, next>> ELSE <<top>>
       IN  probe' = [fn |-> "answerQuestion",
                     arg |-> chunks,
                     out |-> AnsweredResult(PlainText(<<"an answer">>), chunks, envProvider)]
    /\ UNCHANGED <<envProvider, vectorStores, nextId, indexCalls, req, lastWrite>>

\* answerQuestion with the caller's options on a project of one file, or of
\* five files with nine chunks; every provider call settles at once
ProbeAnswer(many, net, cnet, question, options) ==
    /\ ModuleLoaded(envProvider)
    /\ probe = NoProbe
    /\ LET files == IF many
                    THEN <<FileApp, FileUtil, FileBlank,
                           [FileApp EXCEPT !.path = FileText.appName],
                           [FileUtil EXCEPT !.path = FileText.utilName]>>
                    ELSE <<FileApp>>
           r0 == Visit(Visit(NewReq("answer", 1, question, answerSearchOptions(options), <<>>),
                             "Received"), "Searching")
           Generate(r) ==
               IF r.pc = "generating"
               THEN answerFinish(r,
                        generateCompletion(Provider,
                            AnswerPrompt(r.query, buildContext(r.chunks)), cnet),
                        envProvider)
               ELSE r
       IN  \E entry \in {StoreEntry(files,
                             RunIndexWith(NewIndexCall(files), Provider, net).vectors, 0)},
              embedding \in {createEmbedding(Provider, question, net)} :
              \E r1 \in {AnswerContinue(searchCodeLookup(r0, storeSet(<<>>, 1, entry)),
                                        embedding)} :
                 probe' = [fn |-> "answerQuestion with options",
                           arg |-> [store |-> entry, options |-> options,
                                    embedding |-> embedding],
                           out |-> Generate([r1 EXCEPT !.net = cnet])]
    /\ UNCHANGED <<envProvider, vectorStores, nextId, indexCalls, req, lastWrite>>

\* createSimpleEmbedding on a text of one line of words
ProbeEmbed(words) ==
    /\ ModuleLoaded(envProvider)
    /\ probe = NoProbe
    /\ probe' = [fn |-> "createSimpleEmbedding",
                 arg |-> <<words>>,
                 out |-> createSimpleEmbedding(<<words>>)]
    /\ UNCHANGED <<envProvider, vectorStores, nextId, indexCalls, req, lastWrite>>

\* file lists with the languages and structure types the suggestions read
SuggestLists ==
    LET typeLists == {<<>>, <<FileText.class>>, <<FileText.component>>, <<FileText.interface>>,
                      <<FileText.component, FileText.class>>,
                      <<FileText.component, FileText.class, FileText.interface>>}
        File(lang, types) ==
            [FileApp EXCEPT !.language = lang,
                            !.structures = [k \in 1..Len(types) |->
                                [type |-> types[k], name |-> FileText.add, line |-> k]]]
    IN  {<<>>, <<FileUtil, FileApp>>}
        \cup {<<File(lang, types)>> : lang \in {FileText.js, FileText.py, FileText.ts},
                                      types \in typeLists}
        \cup {<<FileUtil, File(FileText.py, types)>> : types \in typeLists}

\* getSuggestedQuestions on a project with these files, or on an id that
\* was never indexed
ProbeSuggest(files, indexed) ==
    /\ ModuleLoaded(envProvider)
    /\ probe = NoProbe
    /\ LET stores == IF indexed THEN storeSet(<<>>, 1, StoreEntry(files, <<>>, 0)) ELSE <<>>
       IN  probe' = [fn |-> "getSuggestedQuestions",
                     arg |-> [files |-> files, indexed |-> indexed],
                     out |-> getSuggestedQuestions(stores, 1)]
    /\ UNCHANGED <<envProvider, vectorStores, nextId, indexCalls, req, lastWrite>>

\* one function is applied once, to one input
PureNext ==
    \/ probe = NoProbe /\ \E s1 \in ProbeLevels, s2 \in ProbeLevels, two \in BOOLEAN :
          ProbeLabel(s1, s2, two)
    \/ probe = NoProbe /\ \E files \in SuggestLists, indexed \in BOOLEAN :
          ProbeSuggest(files, indexed)
    \/ probe = NoProbe /\ \E L \in 1..MaxLines, pattern \in {"full", "head", "tail", "blank"} :
          ProbeChunk(L, pattern)
    \/ probe = NoProbe /\ \E many \in BOOLEAN,
                             net \in {n \in ProbeNets(Provider) : n \in EmbeddingNet \cup {NoNet}},
                             cnet \in CompletionNet, q \in Queries,
                             l \in {<<>>, FileText.py},
                             n \in {Nothing, Given(1), Given(12)} :
          ProbeAnswer(many, net, cnet, q, [language |-> l, folder |-> <<>>, limit |-> n])
    \/ probe = NoProbe /\ \E n \in 0..MaxWords :
          \E words \in [1..n -> {FileText.add, FileText.export, FileText.xfjfxtf,
                                 FileText.ab, FileText.AddCall}] :
             ProbeEmbed(words)
    \/ probe = NoProbe /\ \E files \in ProbeFileLists, inet \in ProbeNets(Provider),
                             qnet \in ProbeNets(Provider), q \in Queries, o \in ProbeOptions :
          ProbeSearch(files, inet, qnet, q, o)

PureSpec == Init /\ [][PureNext]_vars

----------------------------------------------------------------------------
(* C13 *)

\* searchCode was applied and returned
Searched == probe.fn = "searchCode" /\ ~probe.out.threw

\* C13: search returns at most limit results for every limit the caller
\* supplies, zero and negative values included (then no result at all), and
\* at most 10 results when no limit is supplied.
C13_AtMostLimit ==
    Searched =>
        LET limit == probe.arg.options.limit
            most == IF limit = Nothing THEN 10
                    ELSE IF limit[1] < 0 THEN 0 ELSE limit[1]
        IN  Len(probe.out.result) <= most

----------------------------------------------------------------------------
(* C14 *)

\* the place of a chunk in the order in which indexProject visits the chunks
InsertionIndex(chunk) ==
    CHOOSE k \in 1..Len(AllChunks(probe.arg.files)) : AllChunks(probe.arg.files)[k] = chunk

\* C14: the results of search are ordered by non-increasing similarity, and
\* results of equal similarity keep the order in which their chunks were
\* inserted at index time (file order, then the summary chunk, then the
\* windows of the file in order).
C14_SortedAndStable ==
    Searched =>
        \A i, j \in 1..Len(probe.out.result) :
            i < j =>
                LET a == probe.out.result[i]
                    b == probe.out.result[j]
                IN  /\ a.similarity >= b.similarity
                    /\ a.similarity = b.similarity =>
                          InsertionIndex(a.chunk) < InsertionIndex(b.chunk)

\* a search returned a result of greater similarity in front of two results
\* of equal similarity, and the first of these two is a summary chunk
C14_Witness ==
    /\ Searched
    /\ \E i \in 1..Len(probe.out.result) :
          /\ i + 2 <= Len(probe.out.result)
          /\ probe.out.result[i].similarity > probe.out.result[i + 1].similarity
          /\ probe.out.result[i + 1].similarity = probe.out.result[i + 2].similarity
          /\ probe.out.result[i + 1].chunk.isSummary

----------------------------------------------------------------------------
(* C15 *)

\* the stored chunks that pass the filters of the search, in stored order
Candidates ==
    LET o == probe.arg.options
        Passes(e) ==
            /\ o.language # <<>> => e.chunk.language = o.language
            /\ o.folder # <<>> =>
                  /\ Len(e.chunk.folder) >= Len(o.folder)
                  /\ \A k \in 1..Len(o.folder) : e.chunk.folder[k] = o.folder[k]
    IN  StoredChunks(SelectSeq(probe.arg.store.vectors, Passes))

----------------------------------------------------------------------------
(* C16 *)

\* chunkContent was applied to a file
Chunked == probe.fn = "chunkContent"

\* the chunks behind the first one
WindowsOut == SubSeq(probe.out, 2, Len(probe.out))

LinesIn == Len(probe.arg.content)

\* every window the loop builds (offsets 0, 40, 80, ... below L) holds text
AllWindowsHaveText ==
    \A i \in 0..(LinesIn - 1) :
        i % 40 = 0 =>
            \E k \in (i + 1)..(IF i + 50 < LinesIn THEN i + 50 ELSE LinesIn) :
                probe.arg.content[k] # <<>>

\* C16 as stated: a file of L >= 1 lines whose windows all hold text yields one
\* summary chunk and ceil(max(L-10,0)/40)+1 windows.
C16_WindowCountFormula ==
    Chunked /\ AllWindowsHaveText =>
        LET over == IF LinesIn > 10 THEN LinesIn - 10 ELSE 0
        IN  /\ probe.out[1].isSummary
            /\ Len(WindowsOut) = ((over + 39) \div 40) + 1

\* C16 amended: a file of L >= 1 lines whose windows all hold text yields one
\* summary chunk and ceil(L/40) windows; window k spans the lines 40(k-1)+1
\* to min(40(k-1)+50, L) and holds exactly these lines (L=5: one window 1-5;
\* L=100: three windows 1-50, 41-90, 81-100).
C16_WindowPerStride ==
    Chunked /\ AllWindowsHaveText =>
        /\ probe.out[1].isSummary
        /\ Len(WindowsOut) = (LinesIn + 39) \div 40
        /\ \A k \in 1..Len(WindowsOut) :
              LET first == (40 * (k - 1)) + 1
                  last == IF first + 49 < LinesIn THEN first + 49 ELSE LinesIn
              IN  /\ WindowsOut[k].startLine = first
                  /\ WindowsOut[k].endLine = last
                  /\ WindowsOut[k].content = SubSeq(probe.arg.content, first, last)

\* a file of 100 lines of text was cut into the windows 1-50, 41-90, 81-100
C16_Witness ==
    /\ Chunked /\ AllWindowsHaveText
    /\ LinesIn = 100
    /\ Len(WindowsOut) = 3
    /\ <<WindowsOut[1].startLine, WindowsOut[1].endLine>> = <<1, 50>>
    /\ <<WindowsOut[2].startLine, WindowsOut[2].endLine>> = <<41, 90>>
    /\ <<WindowsOut[3].startLine, WindowsOut[3].endLine>> = <<81, 100>>

----------------------------------------------------------------------------
(* C17 *)

\* C17: a file of fewer than 50 lines that holds text yields exactly one
\* window, spanning lines 1..L, plus the summary chunk; and every file that
\* holds text yields at least 2 chunks.
C17_ShortFileOneWindow ==
    Chunked /\ HasText(probe.arg.content) =>
        /\ Len(probe.out) >= 2
        /\ LinesIn < 50 =>
              /\ Len(WindowsOut) = 1
              /\ WindowsOut[1].startLine = 1
              /\ WindowsOut[1].endLine = LinesIn

----------------------------------------------------------------------------
(* C18 *)

\* C18: for every file, blank files included, exactly one chunk has isSummary
\* set; it is the first chunk, its range is line 1 to line L, and no window
\* has isSummary set.
C18_OneSummaryFirst ==
    Chunked =>
        /\ Len(probe.out) >= 1
        /\ probe.out[1].isSummary
        /\ probe.out[1].startLine = 1
        /\ probe.out[1].endLine = LinesIn
        /\ \A k \in 2..Len(probe.out) : ~probe.out[k].isSummary
        /\ Cardinality({k \in 1..Len(probe.out) : probe.out[k].isSummary}) = 1

\* a file of several windows whose first window is blank: the summary chunk
\* is in front of the windows that were kept and spans the whole file
C18_Witness ==
    /\ Chunked
    /\ LinesIn > 50
    /\ ~HasText(SubSeq(probe.arg.content, 1, 50))
    /\ Len(probe.out) >= 2
    /\ probe.out[1].isSummary
    /\ probe.out[1].endLine = LinesIn
    /\ probe.out[2].startLine > 1

----------------------------------------------------------------------------
(* C19 *)

\* C19: in an Answered result the confidence label is fixed by the similarity
\* s of the first chunk alone: 'high' if s > 0.8, 'medium' if 0.6 < s <= 0.8,
\* 'low' otherwise.
C19_ConfidenceFromTopChunk ==
    probe.fn = "answerQuestion" =>
        LET s == probe.arg[1].similarity
        IN  probe.out.confidence =
                IF 10 * s > 8 * Scale THEN "high"
                ELSE IF 10 * s > 6 * Scale THEN "medium"
                ELSE "low"

\* the first of two chunks has similarity 0.8 exactly: the label is 'medium'
C19_Witness ==
    /\ probe.fn = "answerQuestion"
    /\ Len(probe.arg) = 2
    /\ 10 * probe.arg[1].similarity = 8 * Scale
    /\ probe.arg[2].similarity < probe.arg[1].similarity
    /\ probe.out.confidence = "medium"

----------------------------------------------------------------------------
(* C20 *)

\* C20: getSuggestedQuestions returns at most 8 questions; it returns the
\* empty sequence for a project without files and for an id that is not
\* indexed, and at least one question for a project with at least one file.
C20_SuggestionsBounded ==
    probe.fn = "getSuggestedQuestions" =>
        /\ Len(probe.out) <= 8
        /\ ~probe.arg.indexed \/ Len(probe.arg.files) = 0 => probe.out = <<>>
        /\ probe.arg.indexed /\ Len(probe.arg.files) >= 1 => Len(probe.out) >= 1

\* a javascript file with a component, a class and an interface gives rise to
\* nine questions, of which eight are returned
C20_Witness ==
    /\ probe.fn = "getSuggestedQuestions"
    /\ probe.arg.indexed
    /\ Len(probe.arg.files) = 1
    /\ Len(probe.arg.files[1].structures) = 3
    /\ probe.arg.files[1].language = FileText.js
    /\ Len(probe.out) = 8
    /\ "How is data validation implemented?" \notin Range(probe.out)

----------------------------------------------------------------------------
(* Two uploads side by side: every upload draws an id of its own, and the   *)
(* store is read, deleted from and cleaned up while the index calls run     *)

PairNext ==
    \/ \E files \in FileLists : IndexStart(files, MaxProjects)
    \/ \E id \in ProjectIds, net \in EmbeddingNet : IndexEmbedReturn(id, net)
    \/ \E id \in ProjectIds : DeleteProject(id)
    \/ CleanupAll
    \/ \E s \in Slots, id \in ProjectIds : Stats(s, id)
    \/ \E s \in Slots, id \in ProjectIds, q \in Queries : SearchStart(s, id, q, NoOptions)
    \/ \E s \in Slots, net \in EmbeddingNet : EmbedReturn(s, net)
    \/ \E s \in Slots : Retire(s)

PairSpec == Init /\ [][PairNext]_vars

----------------------------------------------------------------------------
(* C21 *)

\* two visible projects that indexProject built from the same list of files
SameFiles(p, q) ==
    /\ p \in DOMAIN vectorStores
    /\ q \in DOMAIN vectorStores
    /\ p # q
    /\ vectorStores[p].files = vectorStores[q].files

\* C21 as stated: indexing the same list of files under two different project
\* ids yields two projects whose stats (totalFiles, totalChunks, languages)
\* are equal, whatever other requests are interleaved with the two index calls.
C21_EqualStats ==
    \A p, q \in ProjectIds :
        SameFiles(p, q) => getProjectStats(vectorStores, p) = getProjectStats(vectorStores, q)

\* C21 amended: the two projects agree on totalFiles and on languages, and
\* the totalChunks of each is the number of chunks of the files less the
\* embedding calls that failed during its own index call; the stats are equal
\* when the two calls lost equally many chunks.
C21_EqualStatsUpToFailures ==
    \A p, q \in ProjectIds :
        SameFiles(p, q) =>
            LET sp == getProjectStats(vectorStores, p)[1]
                sq == getProjectStats(vectorStores, q)[1]
            IN  /\ sp.totalFiles = sq.totalFiles
                /\ sp.languages = sq.languages
                /\ sp.totalChunks = Len(AllChunks(vectorStores[p].files)) - indexCalls[p].errors
                /\ sq.totalChunks = Len(AllChunks(vectorStores[q].files)) - indexCalls[q].errors
                /\ indexCalls[p].errors = indexCalls[q].errors => sp = sq

\* two projects of the same two files are visible, indexed at different
\* times, one of them after a failed embedding call and the other one without
C21_Witness ==
    \E p, q \in ProjectIds :
        /\ SameFiles(p, q)
        /\ Len(vectorStores[p].files) = 2
        /\ vectorStores[p].indexedAt # vectorStores[q].indexedAt
        /\ indexCalls[p].errors > 0
        /\ indexCalls[q].errors = 0

----------------------------------------------------------------------------
(* C22 *)

\* C22: every result search returns has a similarity score within [0,1], for
\* every stored vector and query vector a provider can produce, vectors with
\* negative components included.
C22_SimilarityInUnitInterval ==
    Searched =>
        \A k \in 1..Len(probe.out.result) :
            /\ probe.out.result[k].similarity >= 0
            /\ probe.out.result[k].similarity <= Scale

----------------------------------------------------------------------------
(* C23 *)

\* the operations that only read the store
ReadKinds == {"exists", "listIds", "stats", "files", "search"}

\* C23: exists, listIds, stats, files and search leave the store unchanged:
\* after any step of one of them, successful or failing, the set of project
\* ids and every project's stored chunks with their vectors, files, stats and
\* indexing timestamp are what they were before; the store changes only in a
\* step in which an index call publishes its project or a delete removes one.
C23_ReadsLeaveStore ==
    [][/\ (\E s \in Slots : req'[s] # req[s] /\ req'[s].kind \in ReadKinds)
          => vectorStores' = vectorStores
       /\ vectorStores' # vectorStores =>
             /\ req' = req
             /\ \E id \in ProjectIds :
                   \/ /\ indexCalls[id].pc # "done" /\ indexCalls'[id].pc = "done"
                      /\ lastWrite'[id] = "index"
                      /\ id \in DOMAIN vectorStores'
                   \/ /\ lastWrite'[id] = "delete"
                      /\ id \in DOMAIN vectorStores
                      /\ id \notin DOMAIN vectorStores']_vars

\* a search has returned chunks of a project, and the project is still stored
\* with the vector of every chunk
C23_Witness ==
    \E s \in Slots :
        /\ req[s].kind = "search" /\ req[s].pc = "done" /\ ~req[s].threw
        /\ req[s].result # <<>>
        /\ req[s].id \in DOMAIN vectorStores
        /\ Len(vectorStores[req[s].id].vectors) >= Len(req[s].result)
        /\ \A k \in 1..Len(vectorStores[req[s].id].vectors) :
              IsVector(vectorStores[req[s].id].vectors[k].embedding)

----------------------------------------------------------------------------
(* C24 *)

\* the entry of a visible project holds the files of its own index call and
\* the chunks of these files whose embedding call succeeded, in order
OwnChunksOnly(stores, calls, id) ==
    id \in DOMAIN stores =>
        /\ stores[id].files = calls[id].files
        /\ StoredChunks(stores[id].vectors) = SucceededChunks(calls[id])
        /\ Range(StoredChunks(stores[id].vectors)) \subseteq Range(AllChunks(calls[id].files))
        /\ stores[id].stats = StoreEntry(calls[id].files, calls[id].vectors, 0).stats

\* C24: projects are independent under concurrency.  For any interleaving of
\* index, search and delete requests on distinct project ids, the stored
\* chunks of each project are exactly the successfully embedded chunks of its
\* own files, and the chunks, files and stats of an id change only in a step
\* of the index call of that id or in a delete of that id.
C24_ProjectsIndependent ==
    [][/\ \A id \in ProjectIds : OwnChunksOnly(vectorStores, indexCalls, id)
       /\ \A id \in ProjectIds : OwnChunksOnly(vectorStores', indexCalls', id)
       /\ \A id \in ProjectIds :
             storeGet(vectorStores', id) # storeGet(vectorStores, id) =>
                \/ indexCalls'[id] # indexCalls[id]
                \/ lastWrite[id] = "index" /\ lastWrite'[id] = "delete"]_vars

\* one project has been deleted while the project of another list of files,
\* indexed after a failed embedding call, is stored with its remaining chunks,
\* and a search is suspended in its embedding call
C24_Witness ==
    \E p, q \in ProjectIds, s \in Slots :
        /\ p # q
        /\ lastWrite[p] = "delete"
        /\ q \in DOMAIN vectorStores
        /\ indexCalls[p].files # indexCalls[q].files
        /\ indexCalls[p].files # <<>>
        /\ indexCalls[q].errors > 0
        /\ Len(vectorStores[q].vectors) > 0
        /\ req[s].kind = "search" /\ req[s].pc = "embedding"

----------------------------------------------------------------------------
(* C25 *)

\* uploads and questions, the requests that call a provider
LiveNext ==
    \/ \E files \in FileLists : IndexStart(files, MaxUploads)
    \/ \E id \in ProjectIds, net \in EmbeddingNet : IndexEmbedReturn(id, net)
    \/ \E s \in Slots, id \in ProjectIds, q \in Queries, o \in AnswerOptions :
          AnswerStart(s, id, q, o)
    \/ \E s \in Slots, net \in EmbeddingNet : EmbedReturn(s, net)
    \/ \E s \in Slots, net \in CompletionNet : CompletionReturn(s, net)
    \/ \E s \in Slots : Retire(s)

\* the service under the scheduling of the event loop: a task that is ready
\* runs (a finished request is answered); when a request arrives and when a
\* provider answers is not up to the service
LiveSpec == Init /\ [][LiveNext]_vars /\ \A s \in Slots : WF_vars(Retire(s))

\* C25: provider calls are bounded by a timeout.  An embedding call of an
\* index call that does not return is eventually counted as a failure of its
\* chunk, so that the index call completes and publishes its project, and a
\* provider call of an answer request that does not return is eventually
\* counted as failed: every index and answer request terminates, whether or
\* not the provider answers.
C25_SuspendedCallsTimeOut ==
    /\ \A id \in ProjectIds :
          (indexCalls[id].pc = "embedding") ~> (indexCalls[id].pc = "done")
    /\ \A s \in Slots :
          (req[s].kind = "answer" /\ req[s].pc \in {"embedding", "generating"})
             ~> (req[s].pc = "done")

----------------------------------------------------------------------------
(* C26 *)

\* C26: for a file of L lines, the window at stride k (k = 0, 1, ...) has
\* startLine 40k+1 and endLine min(40k+50, L), so 1 <= startLine <= endLine
\* <= L for every emitted window; every line that holds text is covered by
\* some window; and two windows of consecutive strides share exactly 10
\* lines.
C26_WindowGeometry ==
    Chunked =>
        /\ \A j \in 1..Len(WindowsOut) :
              LET w == WindowsOut[j]
              IN  /\ 1 <= w.startLine /\ w.startLine <= w.endLine /\ w.endLine <= LinesIn
                  /\ \E k \in 0..(LinesIn \div 40) :
                        /\ w.startLine = (40 * k) + 1
                        /\ w.endLine = Min((40 * k) + 50, LinesIn)
        /\ \A n \in 1..LinesIn :
              probe.arg.content[n] # <<>> =>
                 \E j \in 1..Len(WindowsOut) :
                    WindowsOut[j].startLine <= n /\ n <= WindowsOut[j].endLine
        /\ \A j \in 1..(Len(WindowsOut) - 1) :
              WindowsOut[j + 1].startLine = WindowsOut[j].startLine + 40 =>
                 (WindowsOut[j].endLine - WindowsOut[j + 1].startLine) + 1 = 10

----------------------------------------------------------------------------
(* C27 *)

\* a missing vector, or one of zero magnitude
Degenerate(v) == ~IsVector(v) \/ \A i \in DOMAIN v.at : v.at[i] = 0

\* the stored vector cannot be compared with the query vector
Incomparable(e, q) == Degenerate(e) \/ Degenerate(q) \/ e.dim # q.dim

\* C27: a degenerate vector never aborts a search.  When the query vector and
\* the vector of a stored chunk differ in length, or one of them has zero
\* magnitude or is missing, the similarity of that chunk is exactly 0 and the
\* search succeeds; when no stored vector can be compared, search returns
\* the first limit chunks in insertion order, all with similarity 0, and
\* answer labels such a ranking 'low'.
C27_DegenerateVectorsScoreZero ==
    probe.fn = "searchCode" /\ ~probe.arg.embedding.threw =>
        LET q == probe.arg.embedding.value
            stored == probe.arg.store.vectors
            limit == probe.arg.options.limit
            Bad(e) == Incomparable(e.embedding, q)
        IN  /\ ~probe.out.threw
            /\ \A k \in 1..Len(probe.out.result) :
                  \A j \in 1..Len(stored) :
                     stored[j].chunk = probe.out.result[k].chunk /\ Bad(stored[j]) =>
                        probe.out.result[k].similarity = 0
            /\ (\A j \in 1..Len(stored) : Bad(stored[j])) /\ (limit = Nothing \/ limit[1] > 0) =>
                  /\ Len(probe.out.result) =
                        Min(IF limit = Nothing THEN 10 ELSE limit[1], Len(Candidates))
                  /\ \A k \in 1..Len(probe.out.result) :
                        /\ probe.out.result[k].chunk = Candidates[k]
                        /\ probe.out.result[k].similarity = 0
                  /\ probe.out.result # <<>> =>
                        Confidence(probe.out.result[1].similarity) = "low"

\* the project was indexed with vectors of 2 components, the query vector has
\* 384, and the search returned the first two of three stored chunks
C27_Witness ==
    /\ probe.fn = "searchCode" /\ ~probe.out.threw
    /\ probe.arg.embedding.value.dim = embeddingDim
    /\ ~Degenerate(probe.arg.embedding.value)
    /\ Len(probe.arg.store.vectors) = 3
    /\ \A j \in 1..3 : probe.arg.store.vectors[j].embedding.dim = 2
    /\ \A j \in 1..3 : ~Degenerate(probe.arg.store.vectors[j].embedding)
    /\ probe.arg.options = [language |-> <<>>, folder |-> <<>>, limit |-> Given(2)]
    /\ Len(probe.out.result) = 2
    /\ \A k \in 1..2 : probe.out.result[k].similarity = 0

----------------------------------------------------------------------------
(* C28 *)

\* answerQuestion was applied with the caller's options and returned the
\* Answered result
AnsweredWithOptions ==
    /\ probe.fn = "answerQuestion with options"
    /\ ~probe.out.threw
    /\ Last(probe.out.trace) = "Answered"

\* C28: in an Answered result, answer has searched with limit 8 whatever
\* limit the caller's options hold, so references has between 1 and 8
\* entries: one per retrieved chunk, in the rank order in which search
\* returned them, and relevantFiles holds each referenced file path exactly
\* once and no other path.
C28_ReferencesPerChunk ==
    AnsweredWithOptions =>
        LET refs == probe.out.result.references
            paths == probe.out.result.relevantFiles
            found == SearchResults(probe.arg.store, probe.arg.embedding.value,
                        [language |-> probe.arg.options.language,
                         folder |-> probe.arg.options.folder,
                         limit |-> Given(8)])
        IN  /\ Len(refs) >= 1 /\ Len(refs) <= 8
            /\ Len(refs) = Len(found)
            /\ \A k \in 1..Len(refs) :
                  /\ refs[k].file = found[k].chunk.path
                  /\ refs[k].startLine = found[k].chunk.startLine
                  /\ refs[k].endLine = found[k].chunk.endLine
                  /\ refs[k].isSummary = found[k].chunk.isSummary
            /\ Range(paths) = {refs[k].file : k \in 1..Len(refs)}
            /\ Cardinality(Range(paths)) = Len(paths)

\* the caller asked for a limit of 12 on a project of nine chunks: the result
\* has eight references, two of them to one file, and fewer relevant files
C28_Witness ==
    /\ AnsweredWithOptions
    /\ probe.arg.options.limit = Given(12)
    /\ Len(probe.arg.store.vectors) = 9
    /\ Len(probe.out.result.references) = 8
    /\ Len(probe.out.result.relevantFiles) < 8
    /\ \E j, k \in 1..8 :
          j # k /\ probe.out.result.references[j].file = probe.out.result.references[k].file

----------------------------------------------------------------------------
(* C29 *)

Embedded384 == probe.fn = "createSimpleEmbedding"

\* the tokens of the probed words that are longer than 2 characters: "ab" has
\* none, "Add(x)" has "add" ("x" is too short), the other words are tokens
KeptTokens ==
    LET line == probe.arg[1]
        Kept(w) == w # FileText.ab
    IN  [k \in 1..Len(SelectSeq(line, Kept)) |->
            IF SelectSeq(line, Kept)[k] = FileText.AddCall THEN FileText.add
            ELSE SelectSeq(line, Kept)[k]]

\* Math.abs(hash) % 384 of the 32-bit hashes 96417 (add), -1289153612 (export)
\* and -2147483648 (xfjfxtf)
Bucket(token) ==
    IF token = FileText.add THEN 33
    ELSE IF token = FileText.export THEN 332
    ELSE 128

\* C29: the offline embedding returns a vector of exactly 384 components.
\* Tokens of at most 2 characters contribute nothing; every kept token is
\* accumulated into a bucket within 0..383, also when its 32-bit hash has
\* overflowed to a negative value, -2^31 included; and a text without a kept
\* token yields the all-zero vector.  The vector depends on the text alone.
C29_OfflineEmbedding ==
    Embedded384 =>
        LET v == probe.out
            nonzero == {i \in DOMAIN v.at : v.at[i] # 0}
        IN  /\ v.dim = 384
            /\ DOMAIN v.at \subseteq 0..383
            /\ \A i \in DOMAIN v.at : v.at[i] >= 0 /\ v.at[i] <= Scale
            /\ nonzero = {Bucket(KeptTokens[k]) : k \in 1..Len(KeptTokens)}
            /\ KeptTokens = <<>> => nonzero = {}
            /\ v = createSimpleEmbedding(<<KeptTokens>>)

\* the text "ab xfjfxtf export": one token is too short, one hashes to -2^31
\* and one to another negative value; the vector is non-zero at 128 and 332
C29_Witness ==
    /\ Embedded384
    /\ probe.arg = << <<FileText.ab, FileText.xfjfxtf, FileText.export>> >>
    /\ simpleHash(FileText.xfjfxtf) = (0 - 2147483647) - 1
    /\ simpleHash(FileText.export) < 0
    /\ {i \in DOMAIN probe.out.at : probe.out.at[i] # 0} = {128, 332}

----------------------------------------------------------------------------
(* C30 *)

\* C30: after the storage cleanup has removed every id from the project set,
\* the set stays empty until a new index request is started: an index call
\* that was suspended in an embedding call when the cleanup ran does not make
\* its project visible afterwards.
C30_CleanupStaysEmpty ==
    [][\A id \in ProjectIds :
          lastWrite[id] = "swept" /\ vectorStores = <<>> /\ nextId' = nextId
             => ~projectExists(vectorStores', id)]_vars

====
